---- MODULE Spec2Model ----
(***************************************************************************)
(* Model of the AI tool finder: the query normalisation, the Firecrawl     *)
(* adapter's retry loops, the tool discovery pipelines, the chat           *)
(* completion call of analyzeTool and the search handler of the App.       *)
(*                                                                         *)
(* Strings are TLA+ strings; a character is a string of length one.  A     *)
(* JavaScript value that is undefined or '' is modelled as "" (both are    *)
(* falsy and the code only ever tests them with &&, || and !), an absent   *)
(* array as << >> where the code only tests `?.length`.                    *)
(***************************************************************************)
EXTENDS Integers, Sequences, FiniteSets, TLC

VARIABLES
    entry,          \* the exported function this behaviour calls
    query,          \* findTools: the raw query argument
    cleanQuery,     \* findTools: const cleanQuery
    pc,             \* position of the running top-level function
    toolsToProcess, \* findTools: foundRawTools.slice(0, 3)
    processedTools, \* findTools: processedTools
    info,           \* findTools: detailedToolInfo of the candidate in the loop
    result,         \* value the top-level promise resolved with
    exit,           \* findTools: the return statement taken
    rankedTools,    \* findTools: the settled ranking call (parsed when it is JSON)
    rejected,       \* TRUE when the top-level promise rejected
    wrap,           \* frame of scrapeToolSearch / extractToolInfoWithAgent
    req,            \* frame of the retry loop in flight
    ret,            \* value the last adapter call resolved with
    today,          \* the day the clock shows, counted from the first run
    prevFallback,   \* first record the previous run with the same query returned
    callOptions,    \* the options argument of a direct adapter call, or the
                    \* data argument of analyzeTool
    norm,           \* normalisation chain of the query: <<n(q), n(n(q))>>
    apiKey,         \* azure-openai.ts: AZURE_API_KEY
    app,            \* App.tsx: the state of the App component
    runs,           \* App.tsx: the searchAITool invocations, in the order started
    calls,          \* findTools: the service calls made so far, in order
    yielded,        \* findTools: for each source queried, whether it gave candidates
    inFlight,       \* findTools: the service calls started and not yet settled
    requests        \* firecrawl.ts: the remote requests issued so far, when counted

vars == <<entry, query, cleanQuery, pc, toolsToProcess, processedTools, info,
          result, exit, rankedTools, rejected, wrap, req, ret, today, prevFallback, callOptions, norm,
                   apiKey, app, runs, calls, yielded, inFlight, requests>>

(***************************************************************************)
(* Bounds of the model.                                                    *)
(***************************************************************************)
MaxLen == 4        \* longest generated query string
MaxProducts == 4   \* longest candidate list a source returns
MaxCandidates == 2 \* longest list a call of the single-result pipeline returns
MaxRank == 3       \* longest array the ranking reply holds
MaxRuns == 2       \* runs of findTools with the same query

(***************************************************************************)
(* Characters and strings.                                                 *)
(***************************************************************************)
LowerAlpha == "abcdefghijklmnopqrstuvwxyz"
UpperAlpha == "ABCDEFGHIJKLMNOPQRSTUVWXYZ"
Digits == "0123456789"

CharAt(s, i) == SubSeq(s, i, i)

\* F(x) and F(x, y) with the arguments evaluated once, before the call: the
\* string functions below recurse on a string as long as their argument
Forced(F(_), x) == CHOOSE r \in {F(v) : v \in {x}} : TRUE
Forced2(F(_, _), x, y) == CHOOSE r \in {F(v, w) : v \in {x}, w \in {y}} : TRUE

CharsOf(s) == {CharAt(s, i) : i \in 1..Len(s)}

IndexIn(s, c) == CHOOSE k \in 1..Len(s) : CharAt(s, k) = c

\* String.prototype.toLowerCase / toUpperCase on one character
LowerChar(c) ==
    IF c \in CharsOf(UpperAlpha) THEN CharAt(LowerAlpha, IndexIn(UpperAlpha, c)) ELSE c

UpperChar(c) ==
    IF c \in CharsOf(LowerAlpha) THEN CharAt(UpperAlpha, IndexIn(LowerAlpha, c)) ELSE c

RECURSIVE ToLowerCase(_)
ToLowerCase(s) ==
    IF s = "" THEN "" ELSE LowerChar(CharAt(s, 1)) \o Forced(ToLowerCase, SubSeq(s, 2, Len(s)))

\* String.prototype.includes
Includes(s, sub) ==
    \E i \in 1..(Len(s) - Len(sub) + 1) : SubSeq(s, i, i + Len(sub) - 1) = sub

\* \s of a JavaScript regular expression, and String.prototype.trim
IsSpace(c) == c \in {" ", "\t", "\n"}

\* \w of a JavaScript regular expression
IsWordChar(c) == c \in CharsOf(LowerAlpha) \cup CharsOf(UpperAlpha) \cup CharsOf(Digits) \cup {"_"}

RECURSIVE TrimStart(_)
TrimStart(s) ==
    IF s # "" /\ IsSpace(CharAt(s, 1)) THEN Forced(TrimStart, SubSeq(s, 2, Len(s))) ELSE s

RECURSIVE TrimEnd(_)
TrimEnd(s) ==
    IF s # "" /\ IsSpace(CharAt(s, Len(s))) THEN Forced(TrimEnd, SubSeq(s, 1, Len(s) - 1)) ELSE s

Trim(s) == Forced(TrimEnd, TrimStart(s))

(***************************************************************************)
(* Query normalisation: query.replace(FILLER, '').replace(/\s+/g, ' ')     *)
(* .trim().  The filler expression is an ordered alternation with the g    *)
(* and i flags: a left-to-right scan that, at each position, deletes the   *)
(* first alternative matching there and resumes after it.                  *)
(***************************************************************************)
FillerWords == <<"what is", "the best", "tool for", "tools for", "ai">>

MatchesAt(s, i, w) ==
    /\ i + Len(w) - 1 <= Len(s)
    /\ ToLowerCase(SubSeq(s, i, i + Len(w) - 1)) = w

\* length of the match of /what is|the best|tool for|tools for|ai|\?|\.$|[?.!]/gi
\* at position i, 0 when no alternative matches there
FillerMatchLen(s, i) ==
    IF \E k \in 1..Len(FillerWords) : MatchesAt(s, i, FillerWords[k])
    THEN Len(FillerWords[CHOOSE k \in 1..Len(FillerWords) :
                /\ MatchesAt(s, i, FillerWords[k])
                /\ \A j \in 1..(k - 1) : ~MatchesAt(s, i, FillerWords[j])])
    ELSE IF CharAt(s, i) = "?" THEN 1
    ELSE IF CharAt(s, i) = "." /\ i = Len(s) THEN 1
    ELSE IF CharAt(s, i) \in {"?", ".", "!"} THEN 1
    ELSE 0

\* the same for /what is|the best|tool for|tools for|ai|^\?|\?$|[?.!]/gi
FillerMatchLenSingle(s, i) ==
    IF \E k \in 1..Len(FillerWords) : MatchesAt(s, i, FillerWords[k])
    THEN Len(FillerWords[CHOOSE k \in 1..Len(FillerWords) :
                /\ MatchesAt(s, i, FillerWords[k])
                /\ \A j \in 1..(k - 1) : ~MatchesAt(s, i, FillerWords[j])])
    ELSE IF CharAt(s, i) = "?" /\ i = 1 THEN 1
    ELSE IF CharAt(s, i) = "?" /\ i = Len(s) THEN 1
    ELSE IF CharAt(s, i) \in {"?", ".", "!"} THEN 1
    ELSE 0

RECURSIVE StripFrom(_, _)
StripFrom(s, i) ==
    IF i > Len(s) THEN ""
    ELSE IF FillerMatchLen(s, i) > 0 THEN Forced2(StripFrom, s, i + FillerMatchLen(s, i))
    ELSE CharAt(s, i) \o Forced2(StripFrom, s, i + 1)

RECURSIVE StripFromSingle(_, _)
StripFromSingle(s, i) ==
    IF i > Len(s) THEN ""
    ELSE IF FillerMatchLenSingle(s, i) > 0
         THEN Forced2(StripFromSingle, s, i + FillerMatchLenSingle(s, i))
    ELSE CharAt(s, i) \o Forced2(StripFromSingle, s, i + 1)

\* .replace(/\s+/g, ' ')
RECURSIVE CollapseSpaces(_)
CollapseSpaces(s) ==
    IF s = "" THEN ""
    ELSE IF IsSpace(CharAt(s, 1))
         THEN " " \o Forced(CollapseSpaces, TrimStart(s))
    ELSE CharAt(s, 1) \o Forced(CollapseSpaces, SubSeq(s, 2, Len(s)))

\* cleanQuery of the multi-source findTools
CleanQuery(q) == Forced(Trim, Forced(CollapseSpaces, StripFrom(q, 1)))

\* cleanQuery of the single-result findTools
CleanQuerySingle(q) == Trim(CollapseSpaces(StripFromSingle(q, 1)))

(***************************************************************************)
(* Values shared by the adapters.                                          *)
(***************************************************************************)
\* the App component before it is mounted
NoApp == [kind |-> "none"]

\* the requests of a call that are not counted, and the count before the first
NoCount == [counting |-> FALSE, sent |-> 0, failed |-> 0]
Counting == [counting |-> TRUE, sent |-> 0, failed |-> 0]

\* one more remote request issued; ok when its reply reported success
Counted(c, ok) ==
    IF c.counting
    THEN [c EXCEPT !.sent = @ + 1, !.failed = IF ok THEN @ ELSE @ + 1]
    ELSE c

NoReq == [fn |-> "none"]
NoRet == [kind |-> "none"]
NoResult == [kind |-> "none"]          \* `let result;` before any assignment
NoData == [kind |-> "undefined"]       \* a response without data
NoJson == [kind |-> "undefined"]       \* a document without json

\* error texts a failure result of the remote service carries
Errors == {"timeout", "blocked"}

Failure(e) == [success |-> FALSE, error |-> e]
Success(d) == [success |-> TRUE, data |-> d]

DEFAULT_FORMATS == <<"markdown", "html">>

RECURSIVE WithoutJson(_)
WithoutJson(fs) ==
    IF fs = << >> THEN << >>
    ELSE IF Head(fs) = "json" THEN WithoutJson(Tail(fs))
    ELSE <<Head(fs)>> \o WithoutJson(Tail(fs))

HasFormat(fs, f) == \E i \in 1..Len(fs) : fs[i] = f

\* options === undefined
NoOptions == [undefined |-> TRUE]

(***************************************************************************)
(* scrapeSingleUrl: option preparation, then the retry loop.               *)
(***************************************************************************)
ScrapeMaxAttempts == 3

\* lines 41-111: safeOptions and apiOptions before the first attempt
ScrapeFrame(options, ctx) ==
    LET so == IF options = NoOptions
              THEN [formats |-> DEFAULT_FORMATS, jsonOptions |-> FALSE, proxy |-> "",
                    agent |-> FALSE, pageWaitFor |-> FALSE]
              ELSE options
        f1 == IF HasFormat(so.formats, "json") /\ ~so.jsonOptions
              THEN WithoutJson(so.formats) ELSE so.formats
        f2 == IF f1 = << >> THEN DEFAULT_FORMATS ELSE f1
    IN  [fn |-> "scrape", ctx |-> ctx, attempts |-> 0, done |-> FALSE,
         result |-> NoResult,
         proxy |-> IF so.proxy = "" THEN "stealth" ELSE so.proxy,
         formats |-> f2, jsonOptions |-> so.jsonOptions, agent |-> so.agent,
         onlyMainContent |-> TRUE, waitFor |-> so.pageWaitFor,
         asked |-> [formats |-> f2, jsonOptions |-> so.jsonOptions],
         sent |-> << >>, last |-> [kind |-> "none"]]

\* what goes over the wire with one scrapeUrl(url, apiOptions)
ScrapeRequest(r) ==
    [api |-> "scrapeUrl", proxy |-> r.proxy, formats |-> r.formats,
     jsonOptions |-> r.jsonOptions, agent |-> r.agent]

ToggleProxy(p) == IF p = "stealth" THEN "basic" ELSE "stealth"

\* lines 128-156: the attempt returned { success: false, error: e }
ScrapeAfterFailure(r, e) ==
    LET n == r.attempts + 1
        r1 == [r EXCEPT !.result = Failure(e), !.attempts = n]
        r2 == IF n < ScrapeMaxAttempts THEN [r1 EXCEPT !.proxy = ToggleProxy(r.proxy)] ELSE r1
    IN  IF n < ScrapeMaxAttempts /\ n = ScrapeMaxAttempts - 1
        THEN [r2 EXCEPT !.formats = <<"markdown">>, !.jsonOptions = FALSE,
                        !.onlyMainContent = FALSE, !.waitFor = FALSE, !.agent = FALSE]
        ELSE r2

\* variant: a thrown attempt that is not counted
ScrapeAfterThrowUncounted(r) == r

\* lines 157-164: scrapeUrl threw
ScrapeAfterThrow(r) == [r EXCEPT !.attempts = r.attempts + 1]

\* lines 125-127: the attempt succeeded, break
ScrapeAfterSuccess(r, d) == [r EXCEPT !.result = Success(d), !.done = TRUE]

\* variant: the loop runs while attempts <= maxAttempts
LoopEndedOneLate(r, max) == r.done \/ r.attempts > max

\* line 118: the loop is left by break, or when attempts < maxAttempts fails
LoopEnded(r, max) == r.done \/ r.attempts >= max

\* variant: no default message when every attempt threw
ScrapeResultNoDefault(r) ==
    IF r.result # NoResult /\ r.result.success
    THEN Success(r.result.data)
    ELSE Failure(IF r.result # NoResult THEN r.result.error ELSE "")

\* lines 167-178: the value scrapeSingleUrl resolves with
ScrapeResult(r) ==
    IF r.result # NoResult /\ r.result.success
    THEN Success(r.result.data)
    ELSE Failure(IF r.result # NoResult THEN r.result.error
                 ELSE "Unknown error occurred after multiple attempts")

(***************************************************************************)
(* searchWithFirecrawl.                                                    *)
(***************************************************************************)
SearchMaxAttempts == 3

\* lines 372-388; limit 0 stands for no limit given
SearchFrame(options, ctx) ==
    LET so == IF options = NoOptions
              THEN [limit |-> 0, fetchPageContent |-> FALSE, onlyMainContent |-> FALSE]
              ELSE options
    IN  [fn |-> "search", ctx |-> ctx, attempts |-> 0, done |-> FALSE,
         result |-> NoResult, limit |-> so.limit,
         fetchPageContent |-> TRUE,
         onlyMainContent |-> so.onlyMainContent, sent |-> << >>]

SearchRequest(r) ==
    [api |-> "search", limit |-> r.limit, fetchPageContent |-> r.fetchPageContent,
     onlyMainContent |-> r.onlyMainContent]

\* lines 405-422
SearchAfterFailure(r, e) ==
    LET n == r.attempts + 1
        r1 == [r EXCEPT !.result = Failure(e), !.attempts = n]
    IN  IF n < SearchMaxAttempts /\ n = SearchMaxAttempts - 1
        THEN [r1 EXCEPT !.fetchPageContent = FALSE, !.onlyMainContent = FALSE]
        ELSE r1

\* lines 423-430
SearchAfterThrow(r) == [r EXCEPT !.attempts = r.attempts + 1]

SearchAfterSuccess(r, d) == [r EXCEPT !.result = Success(d), !.done = TRUE]

\* lines 433-445
SearchResult(r) ==
    IF r.result # NoResult /\ r.result.success
    THEN Success(r.result.data)
    ELSE Failure(IF r.result # NoResult /\ r.result.error # "" THEN r.result.error
                 ELSE "Unknown error occurred during search")

(***************************************************************************)
(* crawlWebsite.                                                           *)
(***************************************************************************)
CrawlMaxAttempts == 2
CrawlReducedLimit == 5
CrawlDefaultLimit == 10

\* lines 193-228
CrawlFrame(options, ctx) ==
    LET so == IF options = NoOptions
              THEN [limit |-> CrawlDefaultLimit, formats |-> DEFAULT_FORMATS,
                    jsonOptions |-> FALSE, proxy |-> ""]
              ELSE options
        f1 == IF HasFormat(so.formats, "json") /\ ~so.jsonOptions
              THEN WithoutJson(so.formats) ELSE so.formats
        f2 == IF f1 = << >> THEN DEFAULT_FORMATS ELSE f1
    IN  [fn |-> "crawl", ctx |-> ctx, attempts |-> 0, done |-> FALSE,
         result |-> NoResult, limit |-> so.limit, proxy |-> so.proxy,
         formats |-> f2, jsonOptions |-> so.jsonOptions, sent |-> << >>]

CrawlRequest(r) ==
    [api |-> "crawlUrl", limit |-> r.limit, proxy |-> r.proxy, formats |-> r.formats,
     jsonOptions |-> r.jsonOptions]

\* lines 245-264
CrawlAfterFailure(r, e) ==
    LET n == r.attempts + 1
        r1 == [r EXCEPT !.result = Failure(e), !.attempts = n]
    IN  IF n < CrawlMaxAttempts
        THEN [r1 EXCEPT !.formats = <<"markdown">>, !.jsonOptions = FALSE,
                        !.limit = IF r.limit > CrawlReducedLimit
                                  THEN CrawlReducedLimit ELSE r.limit]
        ELSE r1

\* lines 265-272
CrawlAfterThrow(r) == [r EXCEPT !.attempts = r.attempts + 1]

CrawlAfterSuccess(r, d) == [r EXCEPT !.result = Success(d), !.done = TRUE]

\* lines 275-290
CrawlResult(r) ==
    IF r.result # NoResult /\ r.result.success
    THEN Success(r.result.data)
    ELSE Failure(IF r.result # NoResult THEN r.result.error
                 ELSE "Unknown error occurred")

(***************************************************************************)
(* Tool records of the multi-source pipeline and their templated defaults. *)
(***************************************************************************)
generateDefaultFeatures(toolName, q) ==
    <<"AI-powered " \o q \o " capabilities",
      "Intuitive interface for " \o toolName,
      "Automates " \o q \o " tasks effectively">>

generateDefaultPros(toolName, q) ==
    <<toolName \o " offers an intuitive interface for " \o q \o " tasks",
      "Advanced AI algorithms for accurate results related to " \o q,
      "Time-saving automation for " \o q \o " workflows">>

generateDefaultCons ==
    <<"Advanced features may have a learning curve or require a subscription",
      "Specific integrations might be limited">>

generateDefaultUseCases(q) ==
    <<"Automated " \o q \o " for various applications",
      "Generating insights from " \o q \o " data",
      "Streamlining " \o q \o " workflows with AI assistance">>

\* .replace(/[^\w\s]/gi, '')
RECURSIVE KeepWordAndSpace(_)
KeepWordAndSpace(s) ==
    IF s = "" THEN ""
    ELSE (IF IsWordChar(CharAt(s, 1)) \/ IsSpace(CharAt(s, 1)) THEN CharAt(s, 1) ELSE "")
         \o Forced(KeepWordAndSpace, SubSeq(s, 2, Len(s)))

\* encodeURIComponent on the characters the model's strings are made of
EncodeChar(c) ==
    IF IsWordChar(c) \/ c \in {"-", ".", "!", "~", "*", "'", "(", ")"} THEN c
    ELSE IF c = " " THEN "%20"
    ELSE IF c = "\t" THEN "%09"
    ELSE IF c = "\n" THEN "%0A"
    ELSE IF c = "?" THEN "%3F"
    ELSE IF c = ":" THEN "%3A"
    ELSE IF c = "/" THEN "%2F"
    ELSE "%25"

RECURSIVE encodeURIComponent(_)
encodeURIComponent(s) ==
    IF s = "" THEN "" ELSE EncodeChar(CharAt(s, 1)) \o Forced(encodeURIComponent, SubSeq(s, 2, Len(s)))

\* new Date().toLocaleDateString() on day n
toLocaleDateString(n) == "11/" \o ToString(n) \o "/2025"

\* variant: the first character left as typed
CapitalizeNothing(s) == s

\* cleanQuery.charAt(0).toUpperCase() + cleanQuery.slice(1)
Capitalize(s) == IF s = "" THEN "" ELSE UpperChar(CharAt(s, 1)) \o SubSeq(s, 2, Len(s))

FallbackName(q) ==
    "AI " \o Forced(Capitalize, Forced(Trim, KeepWordAndSpace(q))) \o " Tool"

FallbackUrl(q) == "https://www.google.com/search?q=" \o encodeURIComponent(q \o " AI tool")

\* variant: a fallback whose name carries the day it was made
createFallbackToolStamped(q, source, date) ==
    [name |-> FallbackName(q) \o " " \o date,
     description |-> "A versatile AI tool for " \o q \o ".",
     url |-> FallbackUrl(q),
     source |-> source,
     features |-> generateDefaultFeatures(FallbackName(q), q),
     useCases |-> generateDefaultUseCases(q),
     pros |-> generateDefaultPros(FallbackName(q), q),
     cons |-> generateDefaultCons,
     lastUpdated |-> date,
     websiteUrl |-> FallbackUrl(q)]

createFallbackTool(q, source, date) ==
    [name |-> FallbackName(q),
     description |-> "A versatile AI tool for " \o q \o ". Designed to assist with various tasks using advanced AI. Please visit the website for specific details. This is a fallback entry.",
     url |-> FallbackUrl(q),
     source |-> source,
     features |-> generateDefaultFeatures(FallbackName(q), q),
     useCases |-> generateDefaultUseCases(q),
     pros |-> generateDefaultPros(FallbackName(q), q),
     cons |-> generateDefaultCons,
     lastUpdated |-> date,
     websiteUrl |-> FallbackUrl(q)]

(***************************************************************************)
(* What the remote services may answer.                                    *)
(***************************************************************************)
\* products of the ProductHunt extraction: a product, a listicle without a
\* description, and an entry without a url
ProductPool ==
    {[name |-> "Alpha", url |-> "https://alpha.ai", description |-> "Alpha edits video"],
     [name |-> "Best AI tools", url |-> "https://blog.example/best", description |-> ""],
     [name |-> "Beta", url |-> "", description |-> "Beta has no link"]}

\* documents of the generic web search
DocumentPool ==
    {[title |-> "Alpha", url |-> "https://alpha.dev", markdown |-> "", content |-> ""],
     [title |-> "Top 10 tools", url |-> "https://blog.example/top", markdown |-> "list", content |-> ""],
     [title |-> "", url |-> "https://untitled.example", markdown |-> "page", content |-> ""]}

RECURSIVE SeqsUpTo(_, _)
SeqsUpTo(S, n) ==
    IF n = 0 THEN {<< >>}
    ELSE SeqsUpTo(S, n - 1) \cup {Append(l, x) : l \in {m \in SeqsUpTo(S, n - 1) : Len(m) = n - 1}, x \in S}

\* json a deep extraction of a tool's website may hold
AgentJsons ==
    {[name |-> "Gamma", description |-> "Gamma described by its site",
      features |-> <<"f1">>, useCases |-> <<"u1">>, pros |-> <<"p1">>, cons |-> <<"c1">>,
      websiteUrl |-> "https://gamma.app"],
     [name |-> "", description |-> "", features |-> << >>, useCases |-> << >>,
      pros |-> << >>, cons |-> << >>, websiteUrl |-> ""]}

\* A run of findTools whose requests are counted draws its replies from one
\* representative of each case: how many requests follow a reply depends on
\* whether it reports success, whether it carries data and how many
\* candidates it lists, never on what the candidates are called.
Budgeted == requests.counting /\ entry = "findTools"

Drawn(pool, representative) == IF Budgeted THEN pool \cap representative ELSE pool

Products == Drawn(ProductPool, {p \in ProductPool : p.name = "Alpha"})
Documents == Drawn(DocumentPool, {d \in DocumentPool : d.title = "Alpha"})

\* data of a successful scrape, by what the request was for
ScrapeData(ctx) ==
    IF ctx = "products"
    THEN {NoData, [json |-> NoJson]}
         \cup {[json |-> [products |-> l]] : l \in SeqsUpTo(Products, MaxProducts)}
    ELSE IF ctx = "tool"
    THEN {NoData, [json |-> NoJson]}
         \cup {[json |-> a] : a \in Drawn(AgentJsons, {j \in AgentJsons : j.name = "Gamma"})}
    ELSE {NoData, [json |-> NoJson]}

\* data of a successful search: an array of documents, or no array
SearchData(ctx) ==
    {NoData} \cup {[isArray |-> TRUE, items |-> l] : l \in SeqsUpTo(Documents, MaxProducts)}

\* data of a successful crawl
CrawlData(ctx) == {<< >>, <<[json |-> NoJson]>>}

\* replies of the chat-completion adapter: analyzeTool rejects, resolves with
\* text JSON.parse throws on, or resolves with JSON text (held parsed)
Rejects == [kind |-> "reject"]
NotJson == [kind |-> "text"]
Json(v) == [kind |-> "json", value |-> v]

\* parsed replies of the enhance_tool_details task
EnhanceValues ==
    {[features |-> <<"ef">>, useCases |-> <<"eu">>, pros |-> <<"ep">>, cons |-> <<"ec">>],
     [name |-> "", description |-> "", websiteUrl |-> "", source |-> "",
      features |-> << >>, useCases |-> << >>]}

EnhanceReplies ==
    {Rejects, NotJson}
    \cup {Json(v) : v \in Drawn(EnhanceValues, {e \in EnhanceValues : e.features # << >>})}

\* names the entries of a ranking reply may carry; a name is unknown whenever
\* no enriched record of the run carries it
RankNames == {"Alpha", "Gamma"}

\* parsed replies of the rank_tools_by_relevance task: an array of entries with
\* a name, or a value that is no array
RankReplies ==
    {Rejects, NotJson, Json([isArray |-> FALSE])}
    \cup {Json([isArray |-> TRUE, items |-> l]) :
              l \in SeqsUpTo({[name |-> n] : n \in Drawn(RankNames, {"Alpha"})}, MaxRank)}

(***************************************************************************)
(* The retry loops as actions: one action is one remote request together   *)
(* with the code that runs until the next request or the end of the loop.  *)
(***************************************************************************)
pipelineVars == <<entry, query, cleanQuery, pc, toolsToProcess, processedTools, info,
                  result, exit, rankedTools, rejected, wrap, ret, today, prevFallback, callOptions, norm,
                   apiKey, app, runs, calls, yielded, inFlight>>

Sent(r, request) == [r EXCEPT !.sent = Append(@, request)]

\* how the latest attempt of a scrape ended
Ended(r, outcome) == [r EXCEPT !.last = outcome]

ScrapeSucceeds ==
    /\ req.fn = "scrape" /\ ~LoopEnded(req, ScrapeMaxAttempts)
    /\ \E d \in ScrapeData(req.ctx) :
           req' = Ended(ScrapeAfterSuccess(Sent(req, ScrapeRequest(req)), d),
                        [kind |-> "success"])
    /\ requests' = Counted(requests, TRUE)
    /\ UNCHANGED pipelineVars

ScrapeFails ==
    /\ req.fn = "scrape" /\ ~LoopEnded(req, ScrapeMaxAttempts)
    /\ \E e \in Errors :
           req' = Ended(ScrapeAfterFailure(Sent(req, ScrapeRequest(req)), e),
                        [kind |-> "failure", error |-> e])
    /\ requests' = Counted(requests, FALSE)
    /\ UNCHANGED pipelineVars

ScrapeThrows ==
    /\ req.fn = "scrape" /\ ~LoopEnded(req, ScrapeMaxAttempts)
    /\ req' = Ended(ScrapeAfterThrow(Sent(req, ScrapeRequest(req))), [kind |-> "threw"])
    /\ requests' = Counted(requests, FALSE)
    /\ UNCHANGED pipelineVars

SearchSucceeds ==
    /\ req.fn = "search" /\ ~LoopEnded(req, SearchMaxAttempts)
    /\ \E d \in SearchData(req.ctx) :
           req' = SearchAfterSuccess(Sent(req, SearchRequest(req)), d)
    /\ requests' = Counted(requests, TRUE)
    /\ UNCHANGED pipelineVars

SearchFails ==
    /\ req.fn = "search" /\ ~LoopEnded(req, SearchMaxAttempts)
    /\ \E e \in Errors :
           req' = SearchAfterFailure(Sent(req, SearchRequest(req)), e)
    /\ requests' = Counted(requests, FALSE)
    /\ UNCHANGED pipelineVars

SearchThrows ==
    /\ req.fn = "search" /\ ~LoopEnded(req, SearchMaxAttempts)
    /\ req' = SearchAfterThrow(Sent(req, SearchRequest(req)))
    /\ requests' = Counted(requests, FALSE)
    /\ UNCHANGED pipelineVars

CrawlSucceeds ==
    /\ req.fn = "crawl" /\ ~LoopEnded(req, CrawlMaxAttempts)
    /\ \E d \in CrawlData(req.ctx) :
           req' = CrawlAfterSuccess(Sent(req, CrawlRequest(req)), d)
    /\ requests' = Counted(requests, TRUE)
    /\ UNCHANGED pipelineVars

CrawlFails ==
    /\ req.fn = "crawl" /\ ~LoopEnded(req, CrawlMaxAttempts)
    /\ \E e \in Errors :
           req' = CrawlAfterFailure(Sent(req, CrawlRequest(req)), e)
    /\ requests' = Counted(requests, FALSE)
    /\ UNCHANGED pipelineVars

CrawlThrows ==
    /\ req.fn = "crawl" /\ ~LoopEnded(req, CrawlMaxAttempts)
    /\ req' = CrawlAfterThrow(Sent(req, CrawlRequest(req)))
    /\ requests' = Counted(requests, FALSE)
    /\ UNCHANGED pipelineVars

(***************************************************************************)
(* scrapeToolSearch and extractToolInfoWithAgent: a first scrape and, when *)
(* it fails, a second, plainer one.                                        *)
(***************************************************************************)
\* lines 604-623
ToolSearchOptions ==
    [formats |-> <<"json", "markdown">>, jsonOptions |-> TRUE, proxy |-> "stealth",
     agent |-> TRUE, pageWaitFor |-> FALSE]

\* lines 635-644
ToolSearchPlainOptions ==
    [formats |-> <<"markdown", "html">>, jsonOptions |-> FALSE, proxy |-> "stealth",
     agent |-> FALSE, pageWaitFor |-> FALSE]

\* extractStructuredData, lines 327-339, as extractToolInfoWithAgent calls it
AgentExtractOptions ==
    [formats |-> <<"json">>, jsonOptions |-> TRUE, proxy |-> "stealth",
     agent |-> TRUE, pageWaitFor |-> FALSE]

\* lines 533-542
AgentPlainOptions ==
    [formats |-> <<"markdown", "json">>, jsonOptions |-> TRUE, proxy |-> "stealth",
     agent |-> FALSE, pageWaitFor |-> FALSE]

\* lines 625-645: the first scrape of scrapeToolSearch has ended
ToolSearchFirst ==
    /\ wrap = "toolSearch1" /\ req.fn = "scrape" /\ LoopEnded(req, ScrapeMaxAttempts)
    /\ LET r == ScrapeResult(req) IN
         IF r.success /\ r.data # NoData
         THEN /\ ret' = Success(r.data)
              /\ wrap' = "none"
              /\ req' = NoReq
         ELSE /\ req' = ScrapeFrame(ToolSearchPlainOptions, "products")
              /\ wrap' = "toolSearch2"
              /\ ret' = ret
    /\ UNCHANGED <<entry, query, cleanQuery, pc, toolsToProcess, processedTools, info,
                   result, exit, rankedTools, rejected, today, prevFallback, callOptions, norm,
                   apiKey, app, runs, calls, yielded, inFlight, requests>>

\* line 635: return await scrapeSingleUrl(...)
ToolSearchSecond ==
    /\ wrap = "toolSearch2" /\ req.fn = "scrape" /\ LoopEnded(req, ScrapeMaxAttempts)
    /\ ret' = ScrapeResult(req)
    /\ wrap' = "none"
    /\ req' = NoReq
    /\ UNCHANGED <<entry, query, cleanQuery, pc, toolsToProcess, processedTools, info,
                   result, exit, rankedTools, rejected, today, prevFallback, callOptions, norm,
                   apiKey, app, runs, calls, yielded, inFlight, requests>>

\* lines 342-354 and 522-543: extractStructuredData has resolved
AgentFirst ==
    /\ wrap = "agent1" /\ req.fn = "scrape" /\ LoopEnded(req, ScrapeMaxAttempts)
    /\ LET r == ScrapeResult(req) IN
         IF r.success
         THEN /\ ret' = Success(r.data)
              /\ wrap' = "none"
              /\ req' = NoReq
         ELSE /\ req' = ScrapeFrame(AgentPlainOptions, "tool")
              /\ wrap' = "agent2"
              /\ ret' = ret
    /\ UNCHANGED <<entry, query, cleanQuery, pc, toolsToProcess, processedTools, info,
                   result, exit, rankedTools, rejected, today, prevFallback, callOptions, norm,
                   apiKey, app, runs, calls, yielded, inFlight, requests>>

\* line 533: return await scrapeSingleUrl(...)
AgentSecond ==
    /\ wrap = "agent2" /\ req.fn = "scrape" /\ LoopEnded(req, ScrapeMaxAttempts)
    /\ ret' = ScrapeResult(req)
    /\ wrap' = "none"
    /\ req' = NoReq
    /\ UNCHANGED <<entry, query, cleanQuery, pc, toolsToProcess, processedTools, info,
                   result, exit, rankedTools, rejected, today, prevFallback, callOptions, norm,
                   apiKey, app, runs, calls, yielded, inFlight, requests>>

(***************************************************************************)
(* The adapters called on their own.                                       *)
(***************************************************************************)
NoValue == [kind |-> "none"]

AdapterEntries ==
    {"scrapeSingleUrl", "searchWithFirecrawl", "crawlWebsite", "scrapeToolSearch",
     "extractToolInfoWithAgent"}

ScrapeOptionSet ==
    {NoOptions} \cup
    [formats : {<< >>, <<"markdown">>, <<"json">>, <<"markdown", "json">>},
     jsonOptions : BOOLEAN, proxy : {"", "basic", "stealth"}, agent : BOOLEAN,
     pageWaitFor : BOOLEAN]

SearchOptionSet ==
    {NoOptions} \cup [limit : {0, 5}, fetchPageContent : BOOLEAN, onlyMainContent : BOOLEAN]

CrawlOptionSet ==
    {NoOptions} \cup
    [limit : {3, 10}, formats : {<< >>, <<"markdown", "json">>}, jsonOptions : BOOLEAN,
     proxy : {"", "stealth"}]

OptionsOf(e) ==
    IF e = "scrapeSingleUrl" THEN ScrapeOptionSet
    ELSE IF e = "searchWithFirecrawl" THEN SearchOptionSet
    ELSE IF e = "crawlWebsite" THEN CrawlOptionSet
    ELSE {NoOptions}

InitAdapter ==
    /\ entry \in AdapterEntries
    /\ callOptions \in OptionsOf(entry)
    /\ pc = "start"
    /\ query = "" /\ cleanQuery = ""
    /\ toolsToProcess = << >> /\ processedTools = << >>
    /\ info = NoValue /\ result = NoValue /\ rejected = FALSE
    /\ exit = "none" /\ rankedTools = NoValue
    /\ wrap = "none" /\ req = NoReq /\ ret = NoRet
    /\ today = 1 /\ prevFallback = NoValue /\ norm = << >>
    /\ apiKey = "key" /\ app = NoApp /\ runs = << >>
    /\ calls = << >> /\ yielded = << >> /\ inFlight = << >> /\ requests = Counting

\* the call runs up to its first remote request
AdapterCall ==
    /\ pc = "start" /\ entry \in AdapterEntries
    /\ pc' = "call"
    /\ \/ /\ entry = "scrapeSingleUrl"
          /\ req' = ScrapeFrame(callOptions, "page") /\ wrap' = wrap
       \/ /\ entry = "searchWithFirecrawl"
          /\ req' = SearchFrame(callOptions, "page") /\ wrap' = wrap
       \/ /\ entry = "crawlWebsite"
          /\ req' = CrawlFrame(callOptions, "page") /\ wrap' = wrap
       \/ /\ entry = "scrapeToolSearch"
          /\ req' = ScrapeFrame(ToolSearchOptions, "products") /\ wrap' = "toolSearch1"
       \/ /\ entry = "extractToolInfoWithAgent"
          /\ req' = ScrapeFrame(AgentExtractOptions, "tool") /\ wrap' = "agent1"
    /\ UNCHANGED <<entry, query, cleanQuery, toolsToProcess, processedTools, info,
                   result, exit, rankedTools, rejected, ret, today, prevFallback, callOptions, norm,
                   apiKey, app, runs, calls, yielded, inFlight, requests>>

\* the promise of the call settles
AdapterReturn ==
    /\ pc = "call" /\ entry \in AdapterEntries
    /\ pc' = "done"
    /\ \/ /\ entry = "scrapeSingleUrl" /\ LoopEnded(req, ScrapeMaxAttempts)
          /\ result' = ScrapeResult(req) /\ ret' = ret
       \/ /\ entry = "searchWithFirecrawl" /\ LoopEnded(req, SearchMaxAttempts)
          /\ result' = SearchResult(req) /\ ret' = ret
       \/ /\ entry = "crawlWebsite" /\ LoopEnded(req, CrawlMaxAttempts)
          /\ result' = CrawlResult(req) /\ ret' = ret
       \/ /\ entry \in {"scrapeToolSearch", "extractToolInfoWithAgent"}
          /\ ret # NoRet
          /\ result' = ret /\ ret' = NoRet
    /\ UNCHANGED <<entry, query, cleanQuery, toolsToProcess, processedTools, info,
                   exit, rankedTools, rejected, wrap, req, today, prevFallback,
                   callOptions, norm,
                   apiKey, app, runs, calls, yielded, inFlight, requests>>

NextAdapter ==
    \/ AdapterCall
    \/ ScrapeSucceeds \/ ScrapeFails \/ ScrapeThrows
    \/ SearchSucceeds \/ SearchFails \/ SearchThrows
    \/ CrawlSucceeds \/ CrawlFails \/ CrawlThrows
    \/ ToolSearchFirst \/ ToolSearchSecond
    \/ AgentFirst \/ AgentSecond
    \/ AdapterReturn

SpecAdapter == InitAdapter /\ [][NextAdapter]_vars

(***************************************************************************)
(* The multi-source findTools: ProductHunt, then a generic web search,     *)
(* then enrichment of the first candidates one by one, then ranking.       *)
(***************************************************************************)
MaxToProcess == 3

Truthy(str) == str # ""

Or(a, b) == IF Truthy(a) THEN a ELSE b

RECURSIVE SelectSeq2(_, _)
SelectSeq2(l, keep) ==
    IF l = << >> THEN << >>
    ELSE (IF Head(l) \in keep THEN <<Head(l)>> ELSE << >>) \o Forced2(SelectSeq2, Tail(l), keep)

\* lines 94-104: candidates of the ProductHunt result
FoundFromProductHunt(r) ==
    LET products == IF r.success /\ r.data # NoData /\ r.data.json # NoJson
                       /\ "products" \in DOMAIN r.data.json
                    THEN r.data.json.products ELSE << >>
        Candidates(kept) ==
            [i \in 1..Len(kept) |->
                [name |-> kept[i].name, description |-> kept[i].description,
                 url |-> kept[i].url, sourceName |-> "ProductHunt"]]
    IN  Forced(Candidates,
               SelectSeq2(products, {p \in ProductPool : Truthy(p.name) /\ Truthy(p.url)}))

\* lines 113-125: candidates of the generic web search
FoundFromSearch(r) ==
    LET docs == IF r.success /\ r.data # NoData /\ r.data.isArray
                THEN r.data.items ELSE << >>
        Candidates(kept) ==
            [i \in 1..Len(kept) |->
                [name |-> kept[i].title, description |-> Or(kept[i].markdown, kept[i].content),
                 url |-> kept[i].url, sourceName |-> "GenericWebSearch"]]
    IN  Forced(Candidates,
               SelectSeq2(docs, {d \in DocumentPool :
                    /\ Truthy(d.url) /\ Truthy(d.title)
                    /\ ~Includes(ToLowerCase(d.title), "best")
                    /\ ~Includes(ToLowerCase(d.title), "top")}))

\* variant: every candidate found goes on to the enrichment
FirstFewAll(l) == l

\* line 137: foundRawTools.slice(0, 3)
FirstFew(l) == SubSeq(l, 1, IF Len(l) < MaxToProcess THEN Len(l) ELSE MaxToProcess)

\* lines 144-154: detailedToolInfo as first built from the candidate
InitialInfo(raw) ==
    [name |-> raw.name, description |-> raw.description, url |-> raw.url,
     source |-> raw.sourceName, features |-> << >>, useCases |-> << >>,
     pros |-> << >>, cons |-> << >>, lastUpdated |-> "", websiteUrl |-> raw.url]

\* lines 162-176: detailedToolInfo overlaid with the extracted json
WithAgentData(d, a, initialUrl) ==
    [d EXCEPT !.name = Or(a.name, d.name),
              !.description = Or(a.description, d.description),
              !.features = a.features, !.useCases = a.useCases,
              !.pros = a.pros, !.cons = a.cons,
              !.websiteUrl = Or(a.websiteUrl, initialUrl)]

\* line 188: { ...detailedToolInfo, ...parsedEnhancement }
WithEnhancement(d, v) ==
    [f \in DOMAIN d |-> IF f \in DOMAIN v THEN v[f] ELSE d[f]]

\* variant: the record built without the defaults for name and description
FinalToolAsExtracted(d, raw, q, date) ==
    [name |-> d.name,
     description |-> d.description,
     url |-> Or(d.websiteUrl, raw.url),
     source |-> Or(d.source, raw.sourceName),
     features |-> d.features, useCases |-> d.useCases, pros |-> d.pros, cons |-> d.cons,
     lastUpdated |-> Or(d.lastUpdated, date),
     websiteUrl |-> Or(d.websiteUrl, raw.url)]

\* variant: the record built with the four lists as they were extracted
FinalToolBareLists(d, raw, q, date) ==
    [name |-> Or(d.name, "Unnamed AI Tool"),
     description |-> Or(d.description,
                        "An AI tool for " \o q \o ". Visit the website to learn more."),
     url |-> Or(d.websiteUrl, raw.url),
     source |-> Or(d.source, raw.sourceName),
     features |-> d.features, useCases |-> d.useCases, pros |-> d.pros, cons |-> d.cons,
     lastUpdated |-> Or(d.lastUpdated, date),
     websiteUrl |-> Or(d.websiteUrl, raw.url)]

\* lines 194-214: the record pushed for a candidate
FinalTool(d, raw, q, date) ==
    [name |-> Or(d.name, "Unnamed AI Tool"),
     description |-> Or(d.description,
                        "An AI tool for " \o q \o ". Visit the website to learn more."),
     url |-> Or(d.websiteUrl, raw.url),
     source |-> Or(d.source, raw.sourceName),
     features |-> IF Len(d.features) > 0 THEN d.features
                  ELSE generateDefaultFeatures(Or(d.name, "tool"), q),
     useCases |-> IF Len(d.useCases) > 0 THEN d.useCases ELSE generateDefaultUseCases(q),
     pros |-> IF Len(d.pros) > 0 THEN d.pros
              ELSE generateDefaultPros(Or(d.name, "tool"), q),
     cons |-> IF Len(d.cons) > 0 THEN d.cons ELSE generateDefaultCons,
     lastUpdated |-> Or(d.lastUpdated, date),
     websiteUrl |-> Or(d.websiteUrl, raw.url)]

\* line 236: processedTools.find(pt => pt.name === rankedTool.name), as the
\* sequence of the records found (so .filter(Boolean) is already applied)
FindByName(tools, n) ==
    IF \E i \in 1..Len(tools) : tools[i].name = n
    THEN <<tools[CHOOSE i \in 1..Len(tools) :
                /\ tools[i].name = n
                /\ \A j \in 1..(i - 1) : tools[j].name # n]>>
    ELSE << >>

RECURSIVE MatchRanked(_, _)
MatchRanked(ranked, tools) ==
    IF ranked = << >> THEN << >>
    ELSE FindByName(tools, Head(ranked).name) \o MatchRanked(Tail(ranked), tools)

\* variant: the reconstructed array returned without comparing the lengths
AcceptRankingUnchecked(finalRankedTools, tools) == finalRankedTools

\* line 239: the reconstructed array is returned when it is as long as the input
AcceptRanking(finalRankedTools, tools) ==
    IF Len(finalRankedTools) = Len(tools) THEN finalRankedTools ELSE tools

\* lines 226-250: the array findTools returns for a ranking reply
RankedResult(tools, reply) ==
    IF reply.kind # "json" THEN tools
    ELSE IF ~reply.value.isArray THEN tools
    ELSE IF Len(reply.value.items) = 0 THEN tools
    ELSE AcceptRanking(MatchRanked(reply.value.items, tools), tools)

\* the return statement that produces it: line 241, 246 or 250
RankedExit(tools, reply) ==
    IF reply.kind # "json" THEN "rankError"
    ELSE IF ~reply.value.isArray THEN "unranked"
    ELSE IF Len(reply.value.items) = 0 THEN "unranked"
    ELSE IF Len(MatchRanked(reply.value.items, tools)) = Len(tools) THEN "ranked"
    ELSE "unranked"

\* variant: no candidate and nothing returned in their place
NoSourceResultEmpty(q, date) == << >>

\* lines 129-132: no source gave a candidate
NoSourceResult(q, date) == <<createFallbackTool(q, "NoSource", date)>>

\* lines 252-255: the outer catch
MainErrorResult(q, date) == <<createFallbackTool(q, "MainError", date)>>

IsIn(x, l) == \E i \in 1..Len(l) : l[i] = x

\* a service call is started
Issue(f, call) == Append(f, call)

\* variant: the continuation runs without the call it started having settled
AfterNoAwait(f) == f

\* `await`: the continuation runs once the call started last has settled
AfterAwait(f) == SubSeq(f, 1, Len(f) - 1)

\* line 158: the loop turns to a candidate and awaits its deep extraction
BeginCandidate(raw) ==
    /\ info' = InitialInfo(raw)
    /\ wrap' = "agent1"
    /\ req' = ScrapeFrame(AgentExtractOptions, "tool")
    /\ pc' = "extract"
    /\ calls' = Append(calls, "extractToolInfoWithAgent")
    /\ inFlight' = Issue(AfterAwait(inFlight), "extractToolInfoWithAgent")

\* lines 134-139: the candidates are bounded and the loop starts
StartProcessing(found) ==
    /\ toolsToProcess' = FirstFew(found)
    /\ processedTools' = << >>
    /\ BeginCandidate(found[1])
    /\ ret' = NoRet
    /\ UNCHANGED <<result, exit, rankedTools, rejected>>

\* lines 215-250: push the record, then the next candidate, the ranking call,
\* or the return of the only record
Push(tool) ==
    LET pushed == Append(processedTools, tool) IN
    /\ processedTools' = pushed
    /\ ret' = NoRet
    /\ IF Len(pushed) < Len(toolsToProcess)
       THEN /\ BeginCandidate(toolsToProcess[Len(pushed) + 1])
            /\ UNCHANGED <<result, exit>>
       ELSE /\ info' = NoValue /\ wrap' = "none" /\ req' = NoReq
            /\ IF Len(pushed) > 1
               THEN /\ pc' = "rank"
                    /\ calls' = Append(calls, "analyzeTool rank_tools_by_relevance")
                    /\ inFlight' = Issue(AfterAwait(inFlight),
                                         "analyzeTool rank_tools_by_relevance")
                    /\ UNCHANGED <<result, exit>>
               ELSE /\ pc' = "done" /\ result' = pushed /\ exit' = "unranked"
                    /\ inFlight' = AfterAwait(inFlight)
                    /\ UNCHANGED calls
    /\ UNCHANGED <<toolsToProcess, rankedTools, rejected>>

fixedVars == <<entry, query, today, prevFallback, callOptions, norm, apiKey, app, runs,
               requests>>

\* variant: the generic web search is made whatever the first source gave
NeedsGenericSearchAlways(found) == TRUE

\* line 108: the generic web search is the fallback of an empty first source
NeedsGenericSearch(found) == Len(found) = 0

\* lines 81-92
FindToolsStart ==
    /\ entry = "findTools" /\ pc = "start"
    /\ cleanQuery' = CleanQuery(query)
    /\ pc' = "productHunt"
    /\ wrap' = "toolSearch1"
    /\ req' = ScrapeFrame(ToolSearchOptions, "products")
    /\ calls' = <<"scrapeToolSearch">>
    /\ inFlight' = Issue(inFlight, "scrapeToolSearch")
    /\ UNCHANGED <<toolsToProcess, processedTools, info, result, exit, rankedTools, rejected,
                   ret, yielded>>
    /\ UNCHANGED fixedVars

\* lines 37-40: the options of the generic web search
GenericSearchOptions == [limit |-> 5, fetchPageContent |-> TRUE, onlyMainContent |-> TRUE]

\* lines 94-112 (and 134-158 when ProductHunt gave candidates)
AfterProductHunt ==
    /\ entry = "findTools" /\ pc = "productHunt" /\ ret # NoRet
    /\ \E found \in {FoundFromProductHunt(ret)} :
         /\ yielded' = Append(yielded, Len(found) > 0)
         /\ IF NeedsGenericSearch(found)
            THEN /\ pc' = "genericSearch"
                 /\ req' = SearchFrame(GenericSearchOptions, "documents")
                 /\ ret' = NoRet
                 /\ calls' = Append(calls, "searchWithFirecrawl")
                 /\ inFlight' = Issue(AfterAwait(inFlight), "searchWithFirecrawl")
                 /\ UNCHANGED <<toolsToProcess, processedTools, info, result, exit, rankedTools, rejected, wrap>>
            ELSE StartProcessing(found)
    /\ UNCHANGED cleanQuery
    /\ UNCHANGED fixedVars

\* lines 113-132 (and 134-158 when the search gave candidates)
AfterGenericSearch ==
    /\ entry = "findTools" /\ pc = "genericSearch"
    /\ req.fn = "search" /\ LoopEnded(req, SearchMaxAttempts)
    /\ \E found \in {FoundFromSearch(SearchResult(req))} :
         /\ yielded' = Append(yielded, Len(found) > 0)
         /\ IF Len(found) = 0
            THEN /\ result' = NoSourceResult(cleanQuery, toLocaleDateString(today))
                 /\ exit' = "noSource"
                 /\ pc' = "done"
                 /\ req' = NoReq
                 /\ UNCHANGED <<toolsToProcess, processedTools, info, rankedTools, rejected,
                                wrap, ret, calls>>
                 /\ inFlight' = AfterAwait(inFlight)
            ELSE StartProcessing(found)
    /\ UNCHANGED cleanQuery
    /\ UNCHANGED fixedVars

\* lines 159-185: the deep extraction has resolved
AfterExtraction ==
    /\ entry = "findTools" /\ pc = "extract" /\ ret # NoRet
    /\ LET raw == toolsToProcess[Len(processedTools) + 1] IN
         IF ret.success /\ ret.data # NoData /\ ret.data.json # NoJson
         THEN /\ Push(FinalTool(WithAgentData(info, ret.data.json, raw.url),
                                raw, cleanQuery, toLocaleDateString(today)))
         ELSE \* features and useCases are still undefined here: analyzeTool is awaited
              /\ pc' = "enhance"
              /\ ret' = NoRet
              /\ calls' = Append(calls, "analyzeTool enhance_tool_details")
              /\ inFlight' = Issue(AfterAwait(inFlight), "analyzeTool enhance_tool_details")
              /\ UNCHANGED <<toolsToProcess, processedTools, info, result, exit, rankedTools, rejected,
                             wrap, req>>
    /\ UNCHANGED <<cleanQuery, yielded>>
    /\ UNCHANGED fixedVars

\* lines 181-216, and 252-255 when analyzeTool rejects
EnhanceReply ==
    /\ entry = "findTools" /\ pc = "enhance"
    /\ LET raw == toolsToProcess[Len(processedTools) + 1] IN
       \E reply \in EnhanceReplies :
         IF reply = Rejects
         THEN /\ result' = MainErrorResult(query, toLocaleDateString(today))
              /\ exit' = "mainError"
              /\ pc' = "done"
              /\ UNCHANGED <<toolsToProcess, processedTools, info, rankedTools, rejected,
                             wrap, req, ret, calls>>
              /\ inFlight' = AfterAwait(inFlight)
         ELSE Push(FinalTool(IF reply.kind = "json"
                             THEN WithEnhancement(info, reply.value) ELSE info,
                             raw, cleanQuery, toLocaleDateString(today)))
    /\ UNCHANGED <<cleanQuery, yielded>>
    /\ UNCHANGED fixedVars

\* lines 226-250: the ranking call has settled
RankReply ==
    /\ entry = "findTools" /\ pc = "rank"
    /\ \E reply \in RankReplies :
          /\ rankedTools' = reply
          /\ result' = RankedResult(processedTools, reply)
          /\ exit' = RankedExit(processedTools, reply)
    /\ pc' = "done"
    /\ UNCHANGED <<cleanQuery, toolsToProcess, processedTools, info, rejected, wrap,
                   req, ret, calls, yielded>>
    /\ inFlight' = AfterAwait(inFlight)
    /\ UNCHANGED fixedVars

(***************************************************************************)
(* The single-result findTools of services/tool-finder.ts.  Its adapter    *)
(* calls resolve in one step each: the adapter never rejects, so a call is *)
(* represented by the value it resolves with.                              *)
(***************************************************************************)
NoHtml == [kind |-> "undefined"]

\* a scraped page, by the link its "Visit Website" anchor carries ("" for none)
HtmlPages == {NoHtml, [visitWebsite |-> ""], [visitWebsite |-> "https://alpha.ai"]}

SingleScrapeResults ==
    {Failure(e) : e \in Errors} \cup {Success(NoData)}
    \cup {Success([html |-> h]) : h \in HtmlPages}

\* products an extraction may list: a product with a site, one without any
\* link, a listicle, one whose link is no ProductHunt page, and an entry whose
\* name is a number
SingleProductPool ==
    {[name |-> "Alpha", typeofName |-> "string", description |-> "Alpha edits video",
      url |-> "https://www.producthunt.com/posts/alpha", websiteUrl |-> "https://alpha.ai"],
     [name |-> "Beta", typeofName |-> "string", description |-> "Beta has no link",
      url |-> "", websiteUrl |-> ""],
     [name |-> "Top picks", typeofName |-> "string", description |-> "a list",
      url |-> "", websiteUrl |-> "https://blog.example/top"],
     [name |-> "Delta", typeofName |-> "string", description |-> "",
      url |-> "https://delta.dev", websiteUrl |-> ""],
     [name |-> "7", typeofName |-> "number", description |-> "seven",
      url |-> "", websiteUrl |-> "https://seven.example"]}

SingleProductLists == SeqsUpTo(SingleProductPool, MaxCandidates)

\* extractStructuredData on the products page: the json is an array, or an
\* object with products
SingleExtractResults ==
    {Failure(e) : e \in Errors} \cup {Success(NoData), Success([json |-> NoJson])}
    \cup {Success([json |-> [isArray |-> TRUE, items |-> l]]) : l \in SingleProductLists}
    \cup {Success([json |-> [isArray |-> FALSE, products |-> l]]) : l \in SingleProductLists}

SingleProductHuntResults ==
    {Failure(e) : e \in Errors} \cup {Success(NoData), Success([json |-> NoJson])}
    \cup {Success([json |-> [products |-> l]]) : l \in SingleProductLists}

SingleDetailResults ==
    {Failure(e) : e \in Errors} \cup {Success(NoData), Success([json |-> NoJson])}
    \cup {Success([json |-> [name |-> "Gamma", description |-> "Gamma described by its site"]]),
          Success([json |-> [name |-> "", description |-> ""]])}

SingleDocumentPool ==
    {[title |-> "Alpha", url |-> "https://alpha.dev", description |-> ""],
     [title |-> "Top 10 tools", url |-> "https://blog.example/top", description |-> "a list"],
     [title |-> "", url |-> "", description |-> ""],
     [title |-> "Posted", url |-> "https://www.producthunt.com/posts/posted",
      description |-> "a post"]}

SingleSearchResults ==
    {Failure(e) : e \in Errors} \cup {Success(NoData)}
    \cup {Success([items |-> l]) : l \in SeqsUpTo(SingleDocumentPool, MaxCandidates)}

IsListicle(name) ==
    \/ Includes(ToLowerCase(name), "best")
    \/ Includes(ToLowerCase(name), "top")
    \/ Includes(ToLowerCase(name), "tools to use")

\* p.name.toLowerCase() is reached with a name that is no string
FilterThrows(l, needsWebsite) ==
    \E i \in 1..Len(l) :
        /\ Truthy(l[i].name) /\ Truthy(l[i].description)
        /\ needsWebsite => Truthy(l[i].websiteUrl)
        /\ l[i].typeofName # "string"

\* lines 100-107 and 213-219
ActualProducts(l, needsWebsite) ==
    SelectSeq2(l, {p \in SingleProductPool :
                      /\ Truthy(p.name) /\ Truthy(p.description)
                      /\ needsWebsite => Truthy(p.websiteUrl)
                      /\ ~IsListicle(p.name)})

ProductHuntSearchUrl(q) == "https://www.producthunt.com/search?q=" \o encodeURIComponent(q)

SingleRecord(name, description, url, source) ==
    [name |-> name, description |-> description, url |-> url, source |-> source]

\* lines 523-538: the record the inner catch adds
GenericTool(cq) ==
    SingleRecord("AI " \o cq \o " Assistant",
                 "An AI-powered assistant for " \o cq \o " tasks and workflows.",
                 ProductHuntSearchUrl(cq \o " AI"), "ProductHunt")

\* lines 352-368: the products kept when none passed the filter
RECURSIVE OriginalTools(_, _)
OriginalTools(l, cq) ==
    IF l = << >> THEN << >>
    ELSE (IF Truthy(Head(l).name) /\ Truthy(Head(l).description)
          THEN <<SingleRecord(Head(l).name, Head(l).description,
                              Or(Head(l).url, ProductHuntSearchUrl(cq)), "ProductHunt")>>
          ELSE << >>) \o OriginalTools(Tail(l), cq)

\* the record added when the website gave nothing more: lines 180-198,
\* 292-308 and 462-480
SingleLimited(i, cq) ==
    IF i.path = "search"
    THEN SingleRecord(Or(i.name, "AI " \o cq \o " Tool"),
                      Or(i.description, "An AI tool for " \o cq), i.url, "Product Search")
    ELSE SingleRecord(i.name, i.description, i.url, "ProductHunt")

\* the record added after the website's details were extracted: lines 153-178,
\* 268-290 and 424-460
SingleComplete(i, r, cq) ==
    IF i.path # "search" THEN SingleRecord(i.name, i.description, i.url, "ProductHunt")
    ELSE IF r.success /\ r.data # NoData /\ r.data.json # NoJson
    THEN SingleRecord(Or(r.data.json.name, Or(i.name, "AI " \o cq \o " Tool")),
                      Or(r.data.json.description,
                         Or(i.description, "An AI tool for " \o cq)),
                      i.url, "Product Search")
    ELSE SingleLimited(i, cq)

\* line 544: tools.slice(0, 1)
FirstOne(l) == IF l = << >> THEN << >> ELSE <<l[1]>>

singleVars == <<toolsToProcess, rankedTools, rejected, wrap, req, ret, yielded>>

\* the service call awaited at each position of the single-result findTools
\* (lines 53, 84, 119, 147, 207, 233 and 376)
SingleCallAt(label) ==
    CASE label = "productsPage" -> "scrapeSingleUrl"
      [] label = "candidates" -> "extractStructuredData"
      [] label = "website" -> "scrapeSingleUrl"
      [] label = "details" -> "extractStructuredData"
      [] label = "specialized" -> "scrapeProductHuntSearch"
      [] label = "productPage" -> "scrapeSingleUrl"
      [] label = "directSearch" -> "searchWithFirecrawl"

SingleReturn(tools, ex) ==
    /\ processedTools' = tools
    /\ result' = FirstOne(tools)
    /\ exit' = ex
    /\ pc' = "done"
    /\ inFlight' = AfterAwait(inFlight)
    /\ UNCHANGED calls

SingleGoto(label) ==
    /\ pc' = label
    /\ calls' = Append(calls, SingleCallAt(label))
    /\ inFlight' = Issue(AfterAwait(inFlight), SingleCallAt(label))
    /\ UNCHANGED <<processedTools, result, exit>>

\* lines 35-63: normalise and await the scrape of the products page
SingleStart ==
    /\ entry = "findToolsSingle" /\ pc = "start"
    /\ cleanQuery' = CleanQuerySingle(query)
    /\ pc' = "productsPage"
    /\ calls' = <<SingleCallAt("productsPage")>>
    /\ inFlight' = Issue(inFlight, SingleCallAt("productsPage"))
    /\ UNCHANGED <<processedTools, info, result, exit>>
    /\ UNCHANGED singleVars /\ UNCHANGED fixedVars

\* lines 65-87: with a page, await the extraction of its products
SingleProductsPage ==
    /\ entry = "findToolsSingle" /\ pc = "productsPage"
    /\ \E r \in SingleScrapeResults :
          IF r.success /\ r.data # NoData
          THEN SingleGoto("candidates")
          ELSE SingleGoto("specialized")
    /\ UNCHANGED <<cleanQuery, info>>
    /\ UNCHANGED singleVars /\ UNCHANGED fixedVars

\* lines 88-126: pick the first actual product and await the scrape of its site
SingleCandidates ==
    /\ entry = "findToolsSingle" /\ pc = "candidates"
    /\ \E r \in SingleExtractResults :
          LET json == IF r.success /\ r.data # NoData THEN r.data.json ELSE NoJson
              productCandidates == IF json = NoJson THEN << >>
                                   ELSE IF json.isArray THEN json.items
                                   ELSE json.products
          IN  IF FilterThrows(productCandidates, TRUE)
              THEN SingleReturn(<<GenericTool(cleanQuery)>>, "innerCatch") /\ info' = info
              ELSE LET actualProducts == ActualProducts(productCandidates, TRUE) IN
                   IF Len(actualProducts) > 0
                   THEN /\ info' = [path |-> "products", name |-> actualProducts[1].name,
                                    description |-> actualProducts[1].description,
                                    url |-> actualProducts[1].websiteUrl]
                        /\ SingleGoto("website")
                   ELSE SingleGoto("specialized") /\ info' = info
    /\ UNCHANGED cleanQuery
    /\ UNCHANGED singleVars /\ UNCHANGED fixedVars

\* lines 127-131 and 180-198, 244-250 and 292-308, 397-403 and 462-480:
\* the product's website was scraped
SingleWebsite ==
    /\ entry = "findToolsSingle" /\ pc = "website"
    /\ \E r \in SingleScrapeResults :
          IF r.success /\ r.data # NoData
          THEN SingleGoto("details")
          ELSE SingleReturn(<<SingleLimited(info, cleanQuery)>>, "single")
    /\ UNCHANGED <<cleanQuery, info>>
    /\ UNCHANGED singleVars /\ UNCHANGED fixedVars

\* lines 132-178, 251-290, 404-460: the website's details were extracted
SingleDetails ==
    /\ entry = "findToolsSingle" /\ pc = "details"
    /\ \E r \in SingleDetailResults :
          SingleReturn(<<SingleComplete(info, r, cleanQuery)>>, "single")
    /\ UNCHANGED <<cleanQuery, info>>
    /\ UNCHANGED singleVars /\ UNCHANGED fixedVars

\* lines 203-229 and 337-370: scrapeProductHuntSearch has resolved
SingleSpecialized ==
    /\ entry = "findToolsSingle" /\ pc = "specialized"
    /\ \E r \in SingleProductHuntResults :
          LET products == IF r.success /\ r.data # NoData /\ r.data.json # NoJson
                          THEN r.data.json.products ELSE << >>
              actualProducts == ActualProducts(products, FALSE)
              bestProduct == actualProducts[1]
          IN  IF Len(products) = 0 THEN SingleGoto("directSearch") /\ info' = info
              ELSE IF FilterThrows(products, FALSE)
              THEN SingleReturn(<<GenericTool(cleanQuery)>>, "innerCatch") /\ info' = info
              ELSE IF Len(actualProducts) > 0
              THEN IF Truthy(bestProduct.url) /\ Includes(bestProduct.url, "producthunt.com")
                   THEN /\ info' = [path |-> "productHunt", name |-> bestProduct.name,
                                    description |-> bestProduct.description,
                                    url |-> bestProduct.url]
                        /\ SingleGoto("productPage")
                   ELSE /\ SingleReturn(<<SingleRecord(bestProduct.name,
                                            bestProduct.description, bestProduct.url,
                                            "ProductHunt")>>, "single")
                        /\ info' = info
              ELSE /\ info' = info
                   /\ IF Len(OriginalTools(products, cleanQuery)) > 0
                      THEN SingleReturn(OriginalTools(products, cleanQuery), "single")
                      ELSE SingleGoto("directSearch")
    /\ UNCHANGED cleanQuery
    /\ UNCHANGED singleVars /\ UNCHANGED fixedVars

\* lines 230-243 and 309-335: the product's ProductHunt page was scraped; when
\* that scrape gave no html nothing is added
SingleProductPage ==
    /\ entry = "findToolsSingle" /\ pc = "productPage"
    /\ \E r \in SingleScrapeResults :
          IF r.success /\ r.data # NoData /\ r.data.html # NoHtml
          THEN IF Truthy(r.data.html.visitWebsite)
               THEN /\ info' = [info EXCEPT !.url = r.data.html.visitWebsite]
                    /\ SingleGoto("website")
               ELSE /\ SingleReturn(<<SingleRecord(info.name, info.description, info.url,
                                                   "ProductHunt")>>, "single")
                    /\ info' = info
          ELSE SingleGoto("directSearch") /\ info' = info
    /\ UNCHANGED cleanQuery
    /\ UNCHANGED singleVars /\ UNCHANGED fixedVars

\* lines 373-396 and 481-521: searchWithFirecrawl has resolved
SingleDirectSearch ==
    /\ entry = "findToolsSingle" /\ pc = "directSearch"
    /\ \E r \in SingleSearchResults :
          LET data == IF r.success /\ r.data # NoData THEN r.data.items ELSE << >>
              looksLikeProduct == SelectSeq2(data, {d \in SingleDocumentPool :
                    /\ Truthy(d.url) /\ Truthy(d.title)
                    /\ ~Includes(ToLowerCase(d.title), "best")
                    /\ ~Includes(ToLowerCase(d.title), "top")
                    /\ ~Includes(d.url, "producthunt.com/posts/")})
          IN  IF Len(data) = 0
              THEN /\ SingleReturn(<<SingleRecord("AI " \o cleanQuery \o " Tool",
                          "A specialized AI tool for " \o cleanQuery \o " tasks.",
                          ProductHuntSearchUrl(cleanQuery \o " AI"), "ProductHunt")>>, "single")
                   /\ info' = info
              ELSE IF Len(looksLikeProduct) > 0
              THEN /\ info' = [path |-> "search", name |-> looksLikeProduct[1].title,
                               description |-> looksLikeProduct[1].description,
                               url |-> looksLikeProduct[1].url]
                   /\ SingleGoto("website")
              ELSE /\ SingleReturn(<<SingleRecord(
                          Or(data[1].title, "AI " \o cleanQuery \o " Tool"),
                          Or(data[1].description, "An AI tool for " \o cleanQuery \o " tasks."),
                          Or(data[1].url, ProductHuntSearchUrl(cleanQuery \o " AI")),
                          "Product Search")>>, "single")
                   /\ info' = info
    /\ UNCHANGED cleanQuery
    /\ UNCHANGED singleVars /\ UNCHANGED fixedVars

PipelineQueries == {"image generation", "AI", "video ai?", " "}

PipelineEntries == {"findTools", "findToolsSingle"}

Init ==
    /\ entry \in PipelineEntries
    /\ query \in PipelineQueries
    /\ pc = "start"
    /\ cleanQuery = ""
    /\ toolsToProcess = << >> /\ processedTools = << >>
    /\ info = NoValue /\ result = NoValue /\ rejected = FALSE
    /\ exit = "none" /\ rankedTools = NoValue
    /\ wrap = "none" /\ req = NoReq /\ ret = NoRet
    /\ today = 1 /\ prevFallback = NoValue /\ callOptions = NoOptions /\ norm = << >>
    /\ apiKey = "key" /\ app = NoApp /\ runs = << >>
    /\ calls = << >> /\ yielded = << >> /\ inFlight = << >> /\ requests = NoCount

Next ==
    \/ FindToolsStart
    \/ ScrapeSucceeds \/ ScrapeFails \/ ScrapeThrows
    \/ SearchSucceeds \/ SearchFails \/ SearchThrows
    \/ ToolSearchFirst \/ ToolSearchSecond
    \/ AgentFirst \/ AgentSecond
    \/ AfterProductHunt \/ AfterGenericSearch
    \/ AfterExtraction \/ EnhanceReply \/ RankReply
    \/ SingleStart \/ SingleProductsPage \/ SingleCandidates
    \/ SingleWebsite \/ SingleDetails
    \/ SingleSpecialized \/ SingleProductPage \/ SingleDirectSearch

Spec == Init /\ [][Next]_vars

(***************************************************************************)
(* Runs of the multi-source findTools against services that are down:      *)
(* every remote request fails or throws.  A run that has returned may be   *)
(* followed by another run with the same query on a later day.             *)
(***************************************************************************)
InitOutage == Init /\ entry = "findTools"

NewRun ==
    /\ entry = "findTools" /\ pc = "done" /\ today < MaxRuns
    /\ prevFallback' = result[1]
    /\ today' = today + 1
    /\ pc' = "start"
    /\ cleanQuery' = ""
    /\ toolsToProcess' = << >> /\ processedTools' = << >>
    /\ info' = NoValue /\ result' = NoValue /\ exit' = "none" /\ rankedTools' = NoValue
    /\ wrap' = "none" /\ req' = NoReq /\ ret' = NoRet
    /\ calls' = << >> /\ yielded' = << >> /\ inFlight' = << >>
    /\ UNCHANGED <<entry, query, rejected, callOptions, norm, apiKey, app, runs, requests>>

NextOutage ==
    \/ FindToolsStart
    \/ ScrapeFails \/ ScrapeThrows
    \/ SearchFails \/ SearchThrows
    \/ ToolSearchFirst \/ ToolSearchSecond
    \/ AfterProductHunt \/ AfterGenericSearch
    \/ NewRun

SpecOutage == InitOutage /\ [][NextOutage]_vars

(***************************************************************************)
(* Query normalisation applied repeatedly to generated strings.            *)
(***************************************************************************)
NormAlphabet == {"a", "i", " ", ".", "?"}

RECURSIVE StringsUpTo(_)
StringsUpTo(n) ==
    IF n = 0 THEN {""}
    ELSE StringsUpTo(n - 1)
         \cup {s \o c : s \in {t \in StringsUpTo(n - 1) : Len(t) = n - 1}, c \in NormAlphabet}

NormQueries == StringsUpTo(MaxLen) \cup PipelineQueries \cup {"A.I. tools"}

\* the cleanQuery computation of the entry's findTools
Normalize(e, q) == IF e = "findTools" THEN CleanQuery(q) ELSE CleanQuerySingle(q)

InitNorm ==
    /\ entry \in PipelineEntries
    /\ query \in NormQueries
    /\ pc = "start"
    /\ cleanQuery = ""
    /\ toolsToProcess = << >> /\ processedTools = << >>
    /\ info = NoValue /\ result = NoValue /\ rejected = FALSE
    /\ exit = "none" /\ rankedTools = NoValue
    /\ wrap = "none" /\ req = NoReq /\ ret = NoRet
    /\ today = 1 /\ prevFallback = NoValue /\ callOptions = NoOptions /\ norm = << >>
    /\ apiKey = "key" /\ app = NoApp /\ runs = << >>
    /\ calls = << >> /\ yielded = << >> /\ inFlight = << >> /\ requests = NoCount

\* normalise the query, then normalise what came out
NormalizeAgain ==
    /\ pc = "start" /\ Len(norm) < 2
    /\ norm' = Append(norm, Normalize(entry, IF norm = << >> THEN query ELSE norm[Len(norm)]))
    /\ UNCHANGED <<entry, query, cleanQuery, pc, toolsToProcess, processedTools, info,
                   result, exit, rankedTools, rejected, wrap, req, ret, today,
                   prevFallback, callOptions, apiKey, app, runs, calls, yielded, inFlight, requests>>

NextNorm == NormalizeAgain

SpecNorm == InitNorm /\ [][NextNorm]_vars

(***************************************************************************)
(* Properties of the adapter, checked under SpecAdapter.                   *)
(***************************************************************************)
PlainAdapters == {"scrapeSingleUrl", "searchWithFirecrawl", "crawlWebsite"}

MaxAttemptsOf(e) ==
    IF e = "scrapeSingleUrl" THEN ScrapeMaxAttempts
    ELSE IF e = "searchWithFirecrawl" THEN SearchMaxAttempts
    ELSE CrawlMaxAttempts

\* the call has returned and no attempt of it succeeded
TotalFailure == pc = "done" /\ entry \in PlainAdapters /\ ~req.done

IsFailureResult(v) ==
    /\ DOMAIN v = {"success", "error"}
    /\ v.success = FALSE
    /\ v.error # ""

\* C5: a call of scrapeSingleUrl or searchWithFirecrawl never issues more than
\* 3 remote requests and a call of crawlWebsite never more than 2, and when
\* every request of the call failed (by a failure reply or by throwing) the
\* call has issued exactly 3, respectively exactly 2, requests.
C5_RetryCeiling ==
    (entry \in PlainAdapters /\ req # NoReq) =>
        /\ Len(req.sent) <= MaxAttemptsOf(entry)
        /\ TotalFailure => Len(req.sent) = MaxAttemptsOf(entry)

C5_Witness ==
    /\ TotalFailure /\ entry = "crawlWebsite"
    /\ Len(req.sent) = CrawlMaxAttempts
    /\ req.result = NoResult

\* C10: scrapeSingleUrl, searchWithFirecrawl and crawlWebsite never reject;
\* they resolve with a success flag, and when no attempt succeeded the value
\* is { success: false, error } with a non-empty error message.
C10_NeverRejects ==
    (pc = "done" /\ entry \in PlainAdapters) =>
        /\ rejected = FALSE
        /\ "success" \in DOMAIN result
        /\ TotalFailure => IsFailureResult(result)

C10_Witness ==
    /\ TotalFailure /\ entry = "scrapeSingleUrl"
    /\ req.result = NoResult
    /\ IsFailureResult(result)
    /\ result.error = "Unknown error occurred after multiple attempts"

(***************************************************************************)
(* Properties of the multi-source findTools, checked under Spec.           *)
(***************************************************************************)
Returned == pc = "done" /\ entry = "findTools"

Count(l, x) == Cardinality({i \in 1..Len(l) : l[i] = x})

IsPermutation(a, b) ==
    /\ Len(a) = Len(b)
    /\ \A i \in 1..Len(b) : Count(a, b[i]) = Count(b, b[i])

DefaultDescription(q) == "An AI tool for " \o q \o ". Visit the website to learn more."

\* C2: every record of the array the multi-source findTools returns has a
\* non-empty name, a non-empty description and a non-empty url, whether it was
\* enriched, default-filled, ranked or synthesized as a fallback.
C2_RecordsComplete ==
    Returned =>
        \A i \in 1..Len(result) :
            /\ result[i].name # ""
            /\ result[i].description # ""
            /\ result[i].url # ""

C2_Witness ==
    /\ Returned /\ exit = "ranked"
    /\ \E i \in 1..Len(result) : result[i].description = DefaultDescription(cleanQuery)
    /\ \E i \in 1..Len(result) : result[i].name = "Gamma"

\* C3: when findTools ranks more than one enriched record and returns the
\* reconstructed ranking, the returned array is a permutation of the enriched
\* records: each appears exactly once, none added, dropped, duplicated or changed.
C3_RankingIsPermutation ==
    (Returned /\ exit = "ranked") => IsPermutation(result, processedTools)

\* entries of the ranking reply that name some enriched record
MatchCount(items, tools) ==
    Cardinality({i \in 1..Len(items) :
                    \E j \in 1..Len(tools) : tools[j].name = items[i].name})

\* the ranking call settled with something that is unparseable, is no
\* non-empty array, or matches back to another number of records than given
BadRanking(reply, tools) ==
    \/ reply.kind # "json"
    \/ ~reply.value.isArray
    \/ Len(reply.value.items) = 0
    \/ MatchCount(reply.value.items, tools) # Len(tools)

\* C4: if the ranking reply is unparseable, is not a non-empty array, or
\* matches back to a number of records different from the input size, findTools
\* returns the enriched records in their original order, unchanged.
C4_BadRankingKeepsOrder ==
    (Returned /\ rankedTools # NoValue /\ BadRanking(rankedTools, processedTools)) =>
        /\ rejected = FALSE
        /\ result = processedTools

\* a reply with one entry fewer than the input, every entry naming a record
C4_Witness ==
    /\ Returned /\ rankedTools.kind = "json" /\ rankedTools.value.isArray
    /\ Len(rankedTools.value.items) = Len(processedTools) - 1
    /\ MatchCount(rankedTools.value.items, processedTools) = Len(processedTools) - 1
    /\ result = processedTools

\* C7: for every raw query whose trimmed form is non-empty, the normalized
\* query findTools passes on to its downstream calls is non-empty, being the
\* raw trimmed query when stripping the filler patterns leaves nothing.
C7_CleanQueryNonEmpty ==
    (entry = "findTools" /\ pc # "start" /\ Trim(query) # "") =>
        /\ cleanQuery # ""
        /\ CleanQuery(query) = "" => cleanQuery = Trim(query)

StartsWith(str, prefix) ==
    Len(str) >= Len(prefix) /\ SubSeq(str, 1, Len(prefix)) = prefix

SearchEngineLink == "https://www.google.com/search?q="

\* C8 as stated: for the query "image generation" with every external call
\* failing, findTools returns exactly one record, the synthesized fallback,
\* whose name contains "Image Generation" and whose url is a search-engine link.
C8_FallbackTitleCase ==
    (Returned /\ query = "image generation") =>
        /\ Len(result) = 1
        /\ result[1].source = "NoSource"
        /\ Includes(result[1].name, "Image Generation")
        /\ StartsWith(result[1].url, SearchEngineLink)

\* C8: for the query "image generation" with every external call failing,
\* findTools returns exactly one record, the synthesized fallback, whose name
\* contains "Image generation" (only the first letter of the query is made
\* upper case) and whose url is a search-engine query link.
C8_FallbackFirstLetter ==
    (Returned /\ query = "image generation") =>
        /\ Len(result) = 1
        /\ result[1].source = "NoSource"
        /\ Includes(result[1].name, "Image generation")
        /\ StartsWith(result[1].url, SearchEngineLink)

C8_Witness ==
    /\ Returned /\ query = "image generation" /\ exit = "noSource"
    /\ result[1].name = "AI Image generation Tool"
    /\ result[1].url = "https://www.google.com/search?q=image%20generation%20AI%20tool"

\* C9: two runs of findTools with the same query in which every discovery
\* path fails return fallback records with the same name and the same url.
C9_FallbackDeterministic ==
    (Returned /\ exit = "noSource" /\ prevFallback # NoValue) =>
        /\ result[1].name = prevFallback.name
        /\ result[1].url = prevFallback.url

\* the second run ended on a later day than the first
C9_Witness ==
    /\ Returned /\ exit = "noSource" /\ prevFallback # NoValue
    /\ result[1].lastUpdated # prevFallback.lastUpdated
    /\ result[1].name = prevFallback.name

(***************************************************************************)
(* Properties of the normalisation, under SpecNorm.                        *)
(***************************************************************************)
\* C6: query normalisation is idempotent: normalising a normalised query
\* returns it unchanged.
C6_Idempotent == Len(norm) = 2 => norm[2] = norm[1]

(***************************************************************************)
(* analyzeTool of services/azure-openai.ts: one chat-completion call.  The *)
(* data of the call is callOptions, the body of the request is req, the    *)
(* way the promise settled is ret and exit tells which way the call took.  *)
(***************************************************************************)
AnalyzeTasks ==
    {"", "extract_ai_tools_from_search", "extract_tools_generic", "extract_tools",
     "rank_tools_by_relevance", "enhance_tool_details", "contextual_chat_response",
     "summarize"}

AnalyzeQueries == {"", "video ai?", "AI"}

ApiKeys == {"", "key"}

\* what the model may answer in choices[0].message.content
AnalyzeContents == {NotJson, Json(<< >>)}

Resolved(content) == [kind |-> "resolved", content |-> content]

Rejected(error) == [kind |-> "rejected", error |-> error]

\* variant: every task is answered with the fallback tool
IsExtractTaskAlways(task) == TRUE

\* lines 178, 192, 201: data.task && data.task.includes('extract')
IsExtractTask(task) == Truthy(task) /\ Includes(task, "extract")

\* variant: the JSON response mode for every task but the contextual chat
JsonModeUnlessChat(task) == task # "contextual_chat_response"

\* line 169: whether response_format is { type: "json_object" }
JsonMode(task) == Truthy(task) /\ task # "contextual_chat_response"

\* lines 165-170: the body of the request; the temperature is in tenths
RequestBody(task) ==
    [temperature |-> IF task = "contextual_chat_response" THEN 5
                     ELSE IF Truthy(task) THEN 1 ELSE 7,
     max_tokens |-> IF task = "contextual_chat_response" THEN 500 ELSE 4000,
     response_format |-> IF JsonMode(task) THEN "json_object" ELSE "undefined"]

\* lines 213-239; JSON.stringify of an array is held as the value it encodes
createFallbackToolResponse(q) ==
    Json(<<[name |-> "AI " \o Capitalize(Trim(KeepWordAndSpace(q))) \o " Assistant",
            description |-> "An advanced AI tool designed to help with " \o q
                            \o " tasks through intelligent automation and data processing.",
            url |-> "https://theresanaiforthat.com/search?q=" \o encodeURIComponent(q),
            pricing |-> "Freemium (Free tier available with paid upgrades)",
            categories |-> <<q, "AI", "Automation">>,
            useCases |-> <<"Streamlining " \o q \o " workflows",
                           "Automating repetitive " \o q \o " tasks",
                           "Generating insights from " \o q \o " data">>,
            pros |-> <<"Easy to use interface", "No coding required",
                       "Regular updates and improvements", "Integrates with popular tools">>,
            cons |-> <<"Advanced features require paid subscription",
                       "May require initial setup time">>]>>)

\* lines 176-182, 188-196, 197-205: a failed call is answered with the
\* fallback for an extraction task and re-raised for every other task
AnalyzeFailure(data, default, error) ==
    IF IsExtractTask(data.task)
    THEN Resolved(createFallbackToolResponse(Or(data.query, default)))
    ELSE Rejected(error)

analyzeVars == <<query, cleanQuery, toolsToProcess, processedTools, info, result,
                 rankedTools, rejected, wrap, today, prevFallback, norm, app, runs,
                 calls, yielded, inFlight, requests>>

InitAnalyze ==
    /\ entry = "analyzeTool"
    /\ callOptions \in [task : AnalyzeTasks, query : AnalyzeQueries]
    /\ apiKey \in ApiKeys
    /\ pc = "start"
    /\ query = "" /\ cleanQuery = ""
    /\ toolsToProcess = << >> /\ processedTools = << >>
    /\ info = NoValue /\ result = NoValue /\ rejected = FALSE
    /\ exit = "none" /\ rankedTools = NoValue
    /\ wrap = "none" /\ req = NoReq /\ ret = NoRet
    /\ today = 1 /\ prevFallback = NoValue /\ norm = << >>
    /\ app = NoApp /\ runs = << >>
    /\ calls = << >> /\ yielded = << >> /\ inFlight = << >> /\ requests = NoCount

\* lines 147-152 and 197-205: without a key nothing is requested
AnalyzeMissingKey ==
    /\ entry = "analyzeTool" /\ pc = "start" /\ ~Truthy(apiKey)
    /\ ret' = AnalyzeFailure(callOptions, "AI assistant", "Azure OpenAI API key is missing")
    /\ exit' = "missingKey"
    /\ pc' = "done"
    /\ UNCHANGED <<entry, callOptions, apiKey, req>>
    /\ UNCHANGED analyzeVars

\* lines 158-171: the request is sent
AnalyzeFetch ==
    /\ entry = "analyzeTool" /\ pc = "start" /\ Truthy(apiKey)
    /\ req' = [fn |-> "fetch", body |-> RequestBody(callOptions.task)]
    /\ pc' = "fetch"
    /\ UNCHANGED <<entry, callOptions, apiKey, ret, exit>>
    /\ UNCHANGED analyzeVars

\* lines 188-196: fetch rejects
AnalyzeNetworkError ==
    /\ entry = "analyzeTool" /\ pc = "fetch"
    /\ ret' = AnalyzeFailure(callOptions, "AI tool", "Failed to fetch")
    /\ exit' = "networkError"
    /\ pc' = "done"
    /\ UNCHANGED <<entry, callOptions, apiKey, req>>
    /\ UNCHANGED analyzeVars

\* lines 173-183 (and 188-205 for the error thrown at 182): a non-2xx reply
AnalyzeNotOk ==
    /\ entry = "analyzeTool" /\ pc = "fetch"
    /\ ret' = AnalyzeFailure(callOptions, "AI tool", "Azure OpenAI API error")
    /\ exit' = "notOk"
    /\ pc' = "done"
    /\ UNCHANGED <<entry, callOptions, apiKey, req>>
    /\ UNCHANGED analyzeVars

\* lines 185-196: a 2xx reply whose body has no choices; reading choices[0]
\* throws inside the inner try
AnalyzeNoChoices ==
    /\ entry = "analyzeTool" /\ pc = "fetch"
    /\ ret' = AnalyzeFailure(callOptions, "AI tool", "Cannot read properties of undefined")
    /\ exit' = "noChoices"
    /\ pc' = "done"
    /\ UNCHANGED <<entry, callOptions, apiKey, req>>
    /\ UNCHANGED analyzeVars

\* lines 185-187: a 2xx reply with a completion
AnalyzeOk ==
    /\ entry = "analyzeTool" /\ pc = "fetch"
    /\ \E content \in AnalyzeContents : ret' = Resolved(content)
    /\ exit' = "ok"
    /\ pc' = "done"
    /\ UNCHANGED <<entry, callOptions, apiKey, req>>
    /\ UNCHANGED analyzeVars

NextAnalyze ==
    \/ AnalyzeMissingKey \/ AnalyzeFetch
    \/ AnalyzeNetworkError \/ AnalyzeNotOk \/ AnalyzeNoChoices \/ AnalyzeOk

SpecAnalyze == InitAnalyze /\ [][NextAnalyze]_vars

AnalyzeFailed ==
    entry = "analyzeTool" /\ pc = "done"
    /\ exit \in {"missingKey", "networkError", "notOk", "noChoices"}

EndsWith(s, suffix) ==
    Len(s) >= Len(suffix) /\ SubSeq(s, Len(s) - Len(suffix) + 1, Len(s)) = suffix

\* C11: when the chat-completion call fails (missing key, network error,
\* non-2xx reply, or a body without choices), analyzeTool resolves with the
\* JSON text of one fallback tool if the task tag contains 'extract', and
\* rejects for every other task.
C11_FallbackOnlyForExtract ==
    AnalyzeFailed =>
        IF Includes(callOptions.task, "extract")
        THEN /\ ret.kind = "resolved"
             /\ ret.content.kind = "json"
             /\ Len(ret.content.value) = 1
             /\ StartsWith(ret.content.value[1].name, "AI ")
             /\ EndsWith(ret.content.value[1].name, " Assistant")
        ELSE ret.kind = "rejected"

C11_Witness ==
    /\ AnalyzeFailed /\ exit = "noChoices"
    /\ callOptions.task = "extract_tools_generic"
    /\ ret.kind = "resolved"

\* C12: when a source gave candidates and the deep extraction of one fails,
\* a failure of the enhancement call (a rejected call or an unparseable
\* reply) does not abort the run: findTools still returns one record per
\* bounded candidate and never the synthesized fallback of the outer catch.
C12_EnhanceFailureKeepsCandidates ==
    (Returned /\ Len(toolsToProcess) > 0) =>
        /\ exit # "mainError"
        /\ Len(result) = Len(toolsToProcess)

\* C13: every record the multi-source findTools returns has non-empty
\* features, useCases, pros and cons, whether the lists were extracted,
\* supplied by the enhancement, templated, or those of a fallback record.
C13_ListsNonEmpty ==
    Returned =>
        \A i \in 1..Len(result) :
            /\ Len(result[i].features) > 0
            /\ Len(result[i].useCases) > 0
            /\ Len(result[i].pros) > 0
            /\ Len(result[i].cons) > 0

C13_Witness ==
    /\ Returned /\ exit = "unranked"
    /\ result[1].cons = generateDefaultCons
    /\ result[1].useCases = generateDefaultUseCases(cleanQuery)

\* C14: the multi-source findTools queries the generic web search only after
\* ProductHunt was queried and yielded no candidate; and when both sources
\* yielded none it returns exactly one fallback record, having made no
\* extraction, enhancement or ranking call.
C14_GenericSearchIsFallback ==
    entry = "findTools" =>
        /\ IsIn("searchWithFirecrawl", calls) =>
               /\ calls[1] = "scrapeToolSearch"
               /\ Len(yielded) >= 1 /\ yielded[1] = FALSE
        /\ (pc = "done" /\ yielded = <<FALSE, FALSE>>) =>
               /\ Len(result) = 1 /\ result[1].source = "NoSource"
               /\ calls = <<"scrapeToolSearch", "searchWithFirecrawl">>

C14_Witness ==
    /\ Returned /\ yielded = <<FALSE, FALSE>>
    /\ IsIn("searchWithFirecrawl", calls)
    /\ Len(result) = 1

\* C15: for a query that is empty once trimmed, either findTools rejects or
\* the call is a no-op that issues no request to any external service.
C15_EmptyQueryIsNoOp ==
    (entry \in PipelineEntries /\ Trim(query) = "") =>
        (rejected \/ calls = << >>)

(***************************************************************************)
(* searchAITool of App.tsx.  Each invocation is a run: it writes the       *)
(* searching state, awaits findTools (the single-result one of             *)
(* services/tool-finder.ts) and writes what it found.  The function tests  *)
(* nothing but the emptiness of its argument, so runs may overlap.         *)
(***************************************************************************)
MaxSearches == 2

AppQueries == {"", "image generation", "video"}

NoTool == [kind |-> "null"]

\* lines 164-171, 289-295, 344, 432-438 of services/tool-finder.ts: a record
\* with the image and the screenshots its path gave it ("" and << >> for none)
WithImages(t, imageUrl, screenshots) ==
    [name |-> t.name, description |-> t.description, url |-> t.url, source |-> t.source,
     imageUrl |-> imageUrl, screenshots |-> screenshots]

\* what findTools resolves with: tools.slice(0, 1) of an array that every
\* path has filled, each record with a string name and description
AppToolPool ==
    {WithImages(SingleRecord("Alpha", "Alpha edits video", "https://alpha.ai", "ProductHunt"),
                "", <<"a1.png", "a2.png", "a3.png">>),
     WithImages(SingleRecord("Delta", "Delta draws", "https://delta.dev", "ProductHunt"),
                "d.png", << >>),
     WithImages(GenericTool("image generation"), "", << >>)}

AppFindToolsOutcomes == {[kind |-> "resolved", tools |-> <<t>>] : t \in AppToolPool}

\* Math.floor(Math.random() * 500) + 50, at its two ends
RandomUpvotes == {50, 549}

\* lines 49-59
InitialApp ==
    [query |-> "", isProcessing |-> FALSE, isResultReady |-> FALSE,
     messages |-> << >>, currentMessage |-> "", foundTool |-> NoTool,
     activeScreenshot |-> 0]

\* line 89
SearchingMessage(q) ==
    [type |-> "bot", content |-> "Searching for tools related to \"" \o q \o "\"..."]

\* lines 183-192
FoundMessage(q, tools) ==
    [type |-> "bot",
     content |-> "Based on your search for \"" \o q \o "\", I've found "
        \o (IF Len(tools) > 1 THEN "several tools! The best match is"
            ELSE "a perfect tool for you:")
        \o " " \o tools[1].name \o "."
        \o (IF Len(tools) > 1
            THEN " I've also found " \o ToString(Len(tools) - 1) \o " other tool"
                 \o (IF Len(tools) > 2 THEN "s" ELSE "")
                 \o " that might interest you, including " \o tools[2].name
                 \o (IF Len(tools) > 2 THEN " and " \o tools[3].name ELSE "") \o "."
            ELSE "")
        \o " Would you like to know more about " \o tools[1].name \o "'s features?"]

\* lines 195-198
NotFoundMessage(q) ==
    [type |-> "bot",
     content |-> "I couldn't find any tools matching \"" \o q
        \o "\". Please try a different search term or be more specific about what you're looking for."]

\* lines 203-206
ErrorMessage ==
    [type |-> "bot",
     content |-> "Sorry, I encountered an error while searching for tools. Please try a different query or try again later."]

\* lines 124-128: bestTool.screenshots || [], with imageUrl put first when
\* it is not among them
Screenshots(bestTool) ==
    IF Truthy(bestTool.imageUrl) /\ ~IsIn(bestTool.imageUrl, bestTool.screenshots)
    THEN <<bestTool.imageUrl>> \o bestTool.screenshots
    ELSE bestTool.screenshots

\* lines 149-178: the fields of convertedTool that tell one search from
\* another; the records of findTools carry no tagline, badges or upvotes
ConvertedTool(bestTool, q, upvotes) ==
    [name |-> bestTool.name,
     screenshots |-> Screenshots(bestTool),
     tagline |-> "AI tool for " \o q,
     description |-> bestTool.description,
     url |-> bestTool.url,
     source |-> bestTool.source,
     badges |-> <<"AI-Powered", q>>,
     upvotes |-> upvotes]

\* lines 96-209: what a run writes once its findTools has settled
WriteOutcome(a, q, outcome, upvotes) ==
    IF outcome.kind = "rejected"
    THEN [a EXCEPT !.messages = <<ErrorMessage>>, !.isProcessing = FALSE]
    ELSE IF Len(outcome.tools) > 0
    THEN [a EXCEPT !.foundTool = ConvertedTool(outcome.tools[1], q, upvotes),
                   !.isResultReady = TRUE,
                   !.messages = <<FoundMessage(q, outcome.tools)>>,
                   !.isProcessing = FALSE]
    ELSE [a EXCEPT !.messages = <<NotFoundMessage(q)>>, !.isProcessing = FALSE]

\* variant: a run that is no longer the one started last writes nothing
AfterFindToolsLatestOnly(a, rs, i, outcome, upvotes) ==
    IF i = Len(rs) THEN WriteOutcome(a, rs[i].searchQuery, outcome, upvotes) ELSE a

\* lines 93-209: the continuation of run i of the runs rs
AfterFindTools(a, rs, i, outcome, upvotes) ==
    WriteOutcome(a, rs[i].searchQuery, outcome, upvotes)

appVars == <<entry, query, cleanQuery, pc, toolsToProcess, processedTools, info, result,
             exit, rankedTools, rejected, wrap, req, ret, today, prevFallback,
             callOptions, norm, apiKey, calls, yielded, inFlight, requests>>

InitApp ==
    /\ entry = "App"
    /\ app = InitialApp /\ runs = << >>
    /\ query = "" /\ cleanQuery = "" /\ pc = "mounted"
    /\ toolsToProcess = << >> /\ processedTools = << >>
    /\ info = NoValue /\ result = NoValue /\ rejected = FALSE
    /\ exit = "none" /\ rankedTools = NoValue
    /\ wrap = "none" /\ req = NoReq /\ ret = NoRet
    /\ today = 1 /\ prevFallback = NoValue /\ callOptions = NoOptions /\ norm = << >>
    /\ apiKey = "key" /\ calls = << >> /\ yielded = << >> /\ inFlight = << >> /\ requests = NoCount

Resolutions(rs) == Cardinality({i \in 1..Len(rs) : rs[i].status = "resolved"})

\* a run of searchAITool that has reached its await
NewSearch(searchQuery) ==
    [handler |-> "searchAITool", searchQuery |-> searchQuery, status |-> "pending",
     outcome |-> NoValue, upvotes |-> 0, order |-> 0]

\* lines 84-93: searchAITool is called and reaches its await
SearchAIToolStart ==
    /\ entry = "App" /\ Len(runs) < MaxSearches
    /\ \E searchQuery \in AppQueries :
          IF ~Truthy(searchQuery)
          THEN UNCHANGED <<app, runs>>
          ELSE /\ app' = [app EXCEPT !.query = searchQuery, !.isProcessing = TRUE,
                                     !.messages = <<SearchingMessage(searchQuery)>>]
               /\ runs' = Append(runs, NewSearch(searchQuery))
    /\ UNCHANGED appVars

\* lines 93-209: the findTools of a pending run settles and the run goes on
SearchAIToolResolve ==
    /\ entry \in {"App", "AppUI"}
    /\ \E i \in 1..Len(runs), outcome \in AppFindToolsOutcomes, upvotes \in RandomUpvotes :
          /\ runs[i].handler = "searchAITool" /\ runs[i].status = "pending"
          /\ app' = AfterFindTools(app, runs, i, outcome, upvotes)
          /\ runs' = [runs EXCEPT ![i] = [@ EXCEPT !.status = "resolved",
                                                   !.outcome = outcome,
                                                   !.upvotes = upvotes,
                                                   !.order = Resolutions(runs) + 1]]
    /\ UNCHANGED appVars

NextApp == SearchAIToolStart \/ SearchAIToolResolve

SpecApp == InitApp /\ [][NextApp]_vars

AllResolved ==
    /\ entry = "App" /\ Len(runs) >= 2
    /\ \A i \in 1..Len(runs) : runs[i].status = "resolved"

ResolvedLast == CHOOSE i \in 1..Len(runs) : runs[i].order = Len(runs)

\* C16: searchAITool cancels nothing.  A run started while an earlier one
\* still awaits findTools does not abort it, and once all runs have resolved
\* the displayed tool and the message list are those of the run that
\* resolved last, also when that run was started first.
C16_LastResolvedWins ==
    AllResolved =>
        LET r == runs[ResolvedLast] IN
        /\ app.foundTool = ConvertedTool(r.outcome.tools[1], r.searchQuery, r.upvotes)
        /\ app.messages = <<FoundMessage(r.searchQuery, r.outcome.tools)>>

C16_Witness ==
    /\ AllResolved /\ ResolvedLast = 1
    /\ runs[1].searchQuery # runs[2].searchQuery
    /\ app.query = runs[2].searchQuery
    /\ app.foundTool.tagline = "AI tool for " \o runs[1].searchQuery

\* scrapeSingleUrl has returned after its last attempt and none succeeded
ScrapeExhausted == TotalFailure /\ entry = "scrapeSingleUrl"

\* C17: when scrapeSingleUrl has used up its attempts, the failure it
\* returns carries the error of the final attempt if that attempt returned a
\* failure, and the generic message if the final attempt threw; it never
\* carries the error of an earlier attempt.
C17_FailureCarriesFinalError ==
    ScrapeExhausted =>
        /\ IsFailureResult(result)
        /\ result.error = IF req.last.kind = "failure" THEN req.last.error
                          ELSE "Unknown error occurred after multiple attempts"

\* C18: in scrapeSingleUrl every failed attempt that is followed by a retry
\* toggles the proxy mode before the retry, so two consecutive attempts
\* never go out with the same proxy mode, whether the earlier one returned a
\* failure or threw.
C18_ProxyAlternates ==
    (entry = "scrapeSingleUrl" /\ req # NoReq) =>
        \A i \in 1..(Len(req.sent) - 1) : req.sent[i].proxy # req.sent[i + 1].proxy

\* C19: in scrapeSingleUrl a third attempt, whenever one is made, requests
\* the markdown format only and carries no jsonOptions, however the two
\* earlier attempts failed.
C19_ThirdAttemptMinimal ==
    (entry = "scrapeSingleUrl" /\ req # NoReq /\ Len(req.sent) >= ScrapeMaxAttempts) =>
        /\ req.sent[ScrapeMaxAttempts].formats = <<"markdown">>
        /\ req.sent[ScrapeMaxAttempts].jsonOptions = FALSE

Requested == entry = "analyzeTool" /\ req # NoReq

\* C20 as stated: analyzeTool requests the JSON response mode for every task
\* except the contextual chat, the default task without a task tag included.
C20_JsonModeForAllButChat ==
    Requested =>
        (req.body.response_format = "json_object"
            <=> callOptions.task # "contextual_chat_response")

\* C20: analyzeTool requests the JSON response mode exactly for the calls
\* that carry a task tag other than the contextual chat; it leaves
\* response_format out for the contextual chat and for the default task of
\* a call without a task tag.
C20_JsonModeForTaggedTasks ==
    Requested =>
        (req.body.response_format = "json_object"
            <=> callOptions.task \notin {"", "contextual_chat_response"})

C20_Witness ==
    /\ Requested /\ callOptions.task = ""
    /\ req.body.response_format = "undefined"
    /\ req.body.max_tokens = 4000

\* C21: no candidate whose name contains 'best', 'top' or 'tools to use'
\* (in any case) reaches the enrichment or appears in what findTools
\* returns, whichever source produced it.
C21_NoListicleCandidates ==
    entry \in PipelineEntries =>
        /\ \A i \in 1..Len(toolsToProcess) : ~IsListicle(toolsToProcess[i].name)
        /\ pc = "done" => \A i \in 1..Len(result) : ~IsListicle(result[i].name)

\* C22: the multi-source findTools enriches at most the first 3 candidates:
\* a run makes at most 3 extractToolInfoWithAgent calls, one per bounded
\* candidate in their order, and returns at most 3 records.
C22_AtMostThreeEnriched ==
    entry = "findTools" =>
        /\ Len(toolsToProcess) <= MaxToProcess
        /\ Count(calls, "extractToolInfoWithAgent") <= MaxToProcess
        /\ Count(calls, "extractToolInfoWithAgent") <= Len(toolsToProcess)
        /\ pc = "done" => Len(result) <= MaxToProcess

C22_Witness ==
    /\ Returned
    /\ Count(calls, "extractToolInfoWithAgent") = MaxToProcess
    /\ Len(result) = MaxToProcess

\* C23: within one run of findTools at most one outbound call is in flight
\* at any time: the sources are queried one after the other and the
\* candidates are enriched one at a time, each enrichment settling before
\* the next one begins.
C23_OneCallInFlight ==
    entry = "findTools" =>
        /\ Len(inFlight) <= 1
        /\ pc = "done" => inFlight = << >>

C23_Witness ==
    /\ entry = "findTools" /\ pc = "extract"
    /\ Len(processedTools) = 1
    /\ inFlight = <<"extractToolInfoWithAgent">>
    /\ Count(calls, "extractToolInfoWithAgent") = 2

(***************************************************************************)
(* The App component driven through what it renders: the search box while  *)
(* no result is shown, and the back button, the thumbnails and the chat    *)
(* input while a result is shown.  A state update and the render that      *)
(* follows it are one step.                                                *)
(***************************************************************************)
MaxChats == 1

BoxQueries == {" ", "video"}

ChatMessages == {"", "what features"}

\* App.tsx lines 275-287 and 299: which screen is rendered
SearchBoxShown(a) == ~a.isResultReady

ResultShown(a) == a.isResultReady /\ a.foundTool # NoTool

\* variant: the search box submits while a search is running
MaySearchAnyTime(q, isProcessing) == Truthy(Trim(q))

\* SearchInput.tsx line 198: if (!query.trim() || isProcessing) return
MaySearch(q, isProcessing) == Truthy(Trim(q)) /\ ~isProcessing

Started(rs, handler) == Cardinality({i \in 1..Len(rs) : rs[i].handler = handler})

Pending(rs, handler) ==
    Cardinality({i \in 1..Len(rs) : rs[i].handler = handler /\ rs[i].status = "pending"})

InitUI ==
    /\ entry = "AppUI"
    /\ app = InitialApp /\ runs = << >>
    /\ query = "" /\ cleanQuery = "" /\ pc = "mounted"
    /\ toolsToProcess = << >> /\ processedTools = << >>
    /\ info = NoValue /\ result = NoValue /\ rejected = FALSE
    /\ exit = "none" /\ rankedTools = NoValue
    /\ wrap = "none" /\ req = NoReq /\ ret = NoRet
    /\ today = 1 /\ prevFallback = NoValue /\ callOptions = NoOptions /\ norm = << >>
    /\ apiKey = "key" /\ calls = << >> /\ yielded = << >> /\ inFlight = << >> /\ requests = NoCount

\* SearchInput.tsx lines 196-200, then App.tsx lines 84-93
HandleSearch ==
    /\ entry = "AppUI" /\ SearchBoxShown(app)
    /\ Started(runs, "searchAITool") < MaxSearches
    /\ \E q \in BoxQueries :
          IF MaySearch(q, app.isProcessing) /\ Truthy(q)
          THEN /\ app' = [app EXCEPT !.query = q, !.isProcessing = TRUE,
                                     !.messages = <<SearchingMessage(q)>>]
               /\ runs' = Append(runs, NewSearch(q))
          ELSE UNCHANGED <<app, runs>>
    /\ UNCHANGED appVars

\* App.tsx lines 61-67, behind the back button of line 327
ResetSearch ==
    /\ entry = "AppUI" /\ ResultShown(app)
    /\ app' = [app EXCEPT !.isResultReady = FALSE, !.messages = << >>,
                          !.currentMessage = "", !.foundTool = NoTool]
    /\ UNCHANGED runs
    /\ UNCHANGED appVars

\* App.tsx lines 245-249, behind the thumbnails of lines 435-444
HandleThumbnailClick ==
    /\ entry = "AppUI" /\ ResultShown(app)
    /\ Len(app.foundTool.screenshots) > 1
    /\ \E index \in 0..(Len(app.foundTool.screenshots) - 1) :
          app' = [app EXCEPT !.activeScreenshot = index]
    /\ UNCHANGED runs
    /\ UNCHANGED appVars

\* App.tsx line 911: the chat input is edited
TypeMessage ==
    /\ entry = "AppUI" /\ ResultShown(app)
    /\ \E m \in ChatMessages : app' = [app EXCEPT !.currentMessage = m]
    /\ UNCHANGED runs
    /\ UNCHANGED appVars

\* App.tsx lines 212-221: sendMessage up to its await; the continuation
\* keeps the foundTool of the render the handler was made in
SendMessage ==
    /\ entry = "AppUI" /\ ResultShown(app)
    /\ Started(runs, "sendMessage") < MaxChats
    /\ IF ~Truthy(Trim(app.currentMessage))
       THEN UNCHANGED <<app, runs>>
       ELSE /\ app' = [app EXCEPT !.currentMessage = "",
                                  !.messages = Append(@, [type |-> "user",
                                                          content |-> app.currentMessage])]
            /\ runs' = Append(runs, [handler |-> "sendMessage", status |-> "pending",
                                     userMessage |-> app.currentMessage,
                                     foundTool |-> app.foundTool])
    /\ UNCHANGED appVars

\* App.tsx lines 225-240: the reply, by the words of the user's message
BotReply(tool, userMessage) ==
    LET m == ToLowerCase(userMessage) IN
    [type |-> "bot",
     content |->
        IF Includes(m, "features") \/ Includes(m, "what")
        THEN tool.name \o " offers powerful features for data visualization and analysis."
        ELSE IF Includes(m, "price") \/ Includes(m, "cost")
        THEN tool.name \o " has a free tier for individuals and a premium tier starting at $29/month for teams with advanced features."
        ELSE tool.name \o " is a great choice for your needs. You can visit their website at "
             \o tool.url \o " to learn more and get started."]

\* App.tsx lines 221-241: the timer of a sendMessage fires
SendMessageReply ==
    /\ entry = "AppUI"
    /\ \E i \in 1..Len(runs) :
          /\ runs[i].handler = "sendMessage" /\ runs[i].status = "pending"
          /\ app' = IF runs[i].foundTool # NoTool
                    THEN [app EXCEPT !.messages =
                              Append(@, BotReply(runs[i].foundTool, runs[i].userMessage))]
                    ELSE app
          /\ runs' = [runs EXCEPT ![i] = [@ EXCEPT !.status = "resolved"]]
    /\ UNCHANGED appVars

NextUI ==
    \/ HandleSearch \/ SearchAIToolResolve
    \/ ResetSearch \/ HandleThumbnailClick
    \/ TypeMessage \/ SendMessage \/ SendMessageReply

SpecUI == InitUI /\ [][NextUI]_vars

\* C24: for searches submitted through the search box at most one findTools
\* run is in flight at any time, and isProcessing is true exactly from the
\* start of a search until its findTools promise has settled.
C24_OneSearchInFlight ==
    entry = "AppUI" =>
        /\ Pending(runs, "searchAITool") <= 1
        /\ app.isProcessing <=> Pending(runs, "searchAITool") = 1

C24_Witness ==
    /\ entry = "AppUI"
    /\ Started(runs, "searchAITool") = 2
    /\ Pending(runs, "searchAITool") = 1
    /\ app.isProcessing

\* C28: whenever a result with a non-empty screenshots list is shown,
\* activeScreenshot is an index into that list, after any sequence of
\* thumbnail clicks, resets and new searches.
C28_ActiveScreenshotInRange ==
    (entry = "AppUI" /\ ResultShown(app) /\ Len(app.foundTool.screenshots) > 0) =>
        /\ 0 <= app.activeScreenshot
        /\ app.activeScreenshot < Len(app.foundTool.screenshots)

\* C29: after resetSearch the message list stays empty until the next search
\* is started, also when a sendMessage was still waiting for its reply when
\* the reset was made.
C29_MessagesEmptyAfterReset ==
    (entry = "AppUI" /\ SearchBoxShown(app) /\ ~app.isProcessing) =>
        app.messages = << >>

\* C25: the single record the findTools of services/tool-finder.ts returns
\* always has a non-empty url, also when the specialized ProductHunt scrape
\* gave a product with a name and a description but no url.
C25_SingleUrlNonEmpty ==
    (entry = "findToolsSingle" /\ pc = "done") =>
        /\ Len(result) = 1
        /\ result[1].url # ""

\* C26: one call of extractToolInfoWithAgent, and one call of scrapeToolSearch,
\* issues at most 6 remote scrape requests, and exactly 6 when every one of
\* its requests fails: a 3-attempt scrape followed by a second 3-attempt scrape.
TwoStageAdapters == {"scrapeToolSearch", "extractToolInfoWithAgent"}

C26_AtMostSixScrapes ==
    entry \in TwoStageAdapters =>
        /\ requests.sent <= 2 * ScrapeMaxAttempts
        /\ (pc = "done" /\ requests.failed = requests.sent) =>
               requests.sent = 2 * ScrapeMaxAttempts

C26_Witness ==
    /\ entry = "extractToolInfoWithAgent" /\ pc = "done"
    /\ requests.sent = 6 /\ requests.failed = 6
    /\ ~result.success

\* C27: whenever scrapeSingleUrl returns success for a call that asked for the
\* json format together with jsonOptions, the attempt that succeeded was sent
\* with the json format and with jsonOptions.
C27_SuccessIsStructured ==
    (/\ entry = "scrapeSingleUrl" /\ pc = "done"
     /\ callOptions # NoOptions
     /\ HasFormat(callOptions.formats, "json") /\ callOptions.jsonOptions
     /\ result.success) =>
        LET succeeded == req.sent[Len(req.sent)]
        IN  HasFormat(succeeded.formats, "json") /\ succeeded.jsonOptions

(***************************************************************************)
(* Runs of the multi-source findTools with the remote requests counted,    *)
(* against services every call of which returns: a request in flight is    *)
(* answered, and the continuation of a settled await is run.               *)
(***************************************************************************)
BudgetQueries == {"video"}

InitBudget ==
    /\ entry = "findTools"
    /\ query \in BudgetQueries
    /\ pc = "start"
    /\ cleanQuery = ""
    /\ toolsToProcess = << >> /\ processedTools = << >>
    /\ info = NoValue /\ result = NoValue /\ rejected = FALSE
    /\ exit = "none" /\ rankedTools = NoValue
    /\ wrap = "none" /\ req = NoReq /\ ret = NoRet
    /\ today = 1 /\ prevFallback = NoValue /\ callOptions = NoOptions /\ norm = << >>
    /\ apiKey = "key" /\ app = NoApp /\ runs = << >>
    /\ calls = << >> /\ yielded = << >> /\ inFlight = << >>
    /\ requests = Counting

NextBudget ==
    \/ FindToolsStart
    \/ ScrapeSucceeds \/ ScrapeFails \/ ScrapeThrows
    \/ SearchSucceeds \/ SearchFails \/ SearchThrows
    \/ ToolSearchFirst \/ ToolSearchSecond
    \/ AgentFirst \/ AgentSecond
    \/ AfterProductHunt \/ AfterGenericSearch
    \/ AfterExtraction \/ EnhanceReply \/ RankReply

\* Every step of a run moves the position of findTools, enters or leaves a
\* frame of a two-stage adapter, or issues a request.
progress == <<pc, wrap, requests.sent>>

Positions == {"start", "productHunt", "genericSearch", "extract", "enhance", "rank", "done"}
Frames == {"none", "toolSearch1", "toolSearch2", "agent1", "agent2"}

\* a step of a run that has not returned: the remote call awaited returns, or
\* the continuation of a settled await runs
Advance ==
    /\ pc # "done"
    /\ pc' \in Positions /\ wrap' \in Frames
    /\ requests' \in {requests} \cup {Counted(requests, ok) : ok \in BOOLEAN}

\* a run that has not returned is never left waiting for ever
SpecBudget == InitBudget /\ [][NextBudget]_vars /\ WF_progress(Advance)

\* a run that has not returned awaits a call or has a continuation to run
NeverStuck == pc # "done" => ENABLED NextBudget

\* chat-completion requests of the run: one per analyzeTool call at most
LlmRequests ==
    Count(calls, "analyzeTool enhance_tool_details")
    + Count(calls, "analyzeTool rank_tools_by_relevance")

WithinBudget == requests.sent <= 27 /\ LlmRequests <= 4

\* C30: when every remote call returns, every run of the multi-source
\* findTools terminates, and it issues at most 27 Firecrawl requests and at
\* most 4 chat-completion requests.
C30_TerminatesWithinBudget == <>(pc = "done") /\ [](WithinBudget /\ NeverStuck)

C30_Witness ==
    /\ entry = "findTools" /\ pc = "done"
    /\ requests.sent = 27 /\ LlmRequests = 4

====
